---- MODULE Spec2Model ----
(***************************************************************************)
(* Curation pipeline of loopfactory-agi-os: feature extraction             *)
(* (components/curation/feature_extractor.py), heuristic quality scoring   *)
(* (components/curation/quality_scorer.py), the scraper orchestrator       *)
(* (components/discovery/web_scraper.py) and the pipeline orchestrator     *)
(* (main.py).                                                              *)
(*                                                                         *)
(* Numbers.  Every "0-1 scale" float of the program is a decimal fraction  *)
(* with at most four digits here, so a signal s is held as the integer     *)
(* s * Scale, a weight as hundredths, and overall_score as the integer     *)
(* overall * 100 * Scale: sums and comparisons are exact.  A quotient that *)
(* is no such decimal (confidence) is held as a fraction [num, den].       *)
(*                                                                         *)
(* Text.  A Python str the analyzers look at is held by what they observe  *)
(* of it: its length, its number of non-blank lines, the sequence of       *)
(* vocabulary fragments occurring in it (one per line, the rest of the     *)
(* text being filler such as "x = 1" that matches no keyword and yields no *)
(* word of three letters), and what ast.parse does on it.  A short noisy   *)
(* string that the program parses (stars, upvotes) is a sequence of        *)
(* one-character strings.                                                  *)
(***************************************************************************)
EXTENDS Integers, Sequences, FiniteSets, TLC

\* ------------------------------------------------------------ bounds
MaxBatch == 3       \* longest externally supplied collection
MaxCalls == 3       \* stage calls and restarts on one data directory
MaxRuns == 2        \* run_full_pipeline calls on one pipeline object

\* ------------------------------------------------------------ numbers
Scale == 100 * 100

Min(a, b) == IF a <= b THEN a ELSE b

\* min(num/den, 1.0) for num >= 0, den > 0, as a fraction
MinOne(num, den) == IF num >= den THEN [num |-> 1, den |-> 1] ELSE [num |-> num, den |-> den]

\* None (json null) where the other values are strings.
None == "None"

\* None where the other values are dicts: the empty sequence, a dict d being <<d>>.
Null == <<>>
Some(d) == <<d>>

\* An operation that may raise returns [exc |-> "none", val |-> v] or
\* [exc |-> <exception class>].
Ok(v) == [exc |-> "none", val |-> v]
Raise(e) == [exc |-> e]

\* dict.get(key, default)
Get(d, key, default) == IF key \in DOMAIN d THEN d[key] ELSE default

\* ------------------------------------------------------------ short strings
\* "sup2" is the single character U+00B2: str.isdigit() accepts it, int() and
\* the regular expression class \d do not.
AsciiDigits == {"0", "1", "2", "3", "4", "5", "6", "7", "8", "9"}

DigitVal(c) ==
    CASE c = "0" -> 0 [] c = "1" -> 1 [] c = "2" -> 2 [] c = "3" -> 3 [] c = "4" -> 4
      [] c = "5" -> 5 [] c = "6" -> 6 [] c = "7" -> 7 [] c = "8" -> 8 [] c = "9" -> 9

IsSpace(c) == c = " "

RECURSIVE SplitFrom(_, _, _)
SplitFrom(s, i, cur) ==
    IF i > Len(s)
    THEN (IF cur = <<>> THEN <<>> ELSE <<cur>>)
    ELSE IF IsSpace(s[i])
         THEN (IF cur = <<>> THEN SplitFrom(s, i + 1, <<>>)
                             ELSE <<cur>> \o SplitFrom(s, i + 1, <<>>))
         ELSE SplitFrom(s, i + 1, Append(cur, s[i]))

\* str.split(): the whitespace-separated tokens, none of them empty
Split(s) == SplitFrom(s, 1, <<>>)

IsReDigit(c) == c \in AsciiDigits

\* re.sub(r'[^\d]', '', s)
StripNonDigits(s) == SelectSeq(s, IsReDigit)

\* str.isdigit()
IsDigitStr(s) == Len(s) > 0 /\ \A i \in 1..Len(s) : s[i] \in AsciiDigits \cup {"sup2"}

RECURSIVE DecimalValue(_)
DecimalValue(s) ==
    IF s = <<>> THEN 0 ELSE 10 * DecimalValue(SubSeq(s, 1, Len(s) - 1)) + DigitVal(s[Len(s)])

\* int(s)
ParseInt(s) ==
    IF Len(s) > 0 /\ \A i \in 1..Len(s) : s[i] \in AsciiDigits
    THEN Ok(DecimalValue(s))
    ELSE Raise("ValueError")

\* ------------------------------------------------------------ text
\* What each vocabulary fragment contains.  RawNeedles: the case-sensitive
\* markers of the code analysis that are substrings of the fragment;
\* LowNeedles: the keywords (of CATEGORIES, COMPLEXITY_KEYWORDS, the tutorial
\* and documentation lists) that are substrings of the lower-cased fragment;
\* Words: re.findall(r'\b[a-z]{3,}\b', fragment.lower()).
RawNeedles(f) ==
    CASE f = "def " -> {"def "}
      [] f = "import " -> {"import "}
      [] f = "class " -> {"class "}
      [] f = "function" -> {"function"}
      [] f = "{" -> {"{"}
      [] f = "=>" -> {"=>"}
      [] f = "public class" -> {"public class"}
      [] f = "private " -> {"private "}
      [] f = "#include" -> {"#include"}
      [] f = "int main" -> {"int main"}
      [] OTHER -> {}

LowNeedles(f) ==
    CASE f = "int main" -> {"ai"}
      [] f = "tutorial" -> {"tutorial"}
      [] f = "Tutorial" -> {"tutorial"}
      [] f = "docs" -> {"docs"}
      [] f = "readme" -> {"readme"}
      [] f = "automate" -> {"automate"}
      [] f = "workflow" -> {"workflow"}
      [] f = "scraper" -> {"scrape"}
      [] f = "chatbot" -> {"bot", "chatbot"}
      [] f = "training" -> {"ai", "training"}
      [] f = "flask" -> {"flask"}
      [] f = "simple" -> {"simple"}
      [] f = "advanced" -> {"advanced"}
      [] f = "how to" -> {"how to"}
      [] f = "api" -> {"api"}
      [] f = "pandas" -> {"pandas"}
      [] f = "testing" -> {"test", "testing"}
      [] f = "BeautifulSoup" -> {"beautifulsoup"}
      [] f = "data" -> {"data"}
      [] f = "practical" -> {"practical"}
      [] OTHER -> {}

Words(f) ==
    CASE f = "def " -> <<"def">>
      [] f = "import " -> <<"import">>
      [] f = "class " -> <<"class">>
      [] f = "function" -> <<"function">>
      [] f = "{" -> <<>>
      [] f = "=>" -> <<>>
      [] f = "public class" -> <<"public", "class">>
      [] f = "private " -> <<"private">>
      [] f = "#include" -> <<"include">>
      [] f = "int main" -> <<"int", "main">>
      [] f = "Tutorial" -> <<"tutorial">>
      [] f = "how to" -> <<"how">>
      [] f = "BeautifulSoup" -> <<"beautifulsoup">>
      [] OTHER -> <<f>>

\* needle in text  (case-sensitive)
ContainsRaw(text, needle) == \E i \in 1..Len(text.frags) : needle \in RawNeedles(text.frags[i])

\* needle in text.lower()
ContainsLower(text, needle) == \E i \in 1..Len(text.frags) : needle \in LowNeedles(text.frags[i])

\* f"{title} {description}"
Concat(title, description) ==
    [len |-> title.len + 1 + description.len,
     lines |-> title.lines + description.lines,
     frags |-> title.frags \o description.frags,
     parse |-> [kind |-> "SyntaxError"]]

\* ------------------------------------------------------------ CodeAnalyzer
\* detect_language with the javascript rule tried before the python rule
detect_language_js_first(code) ==
    IF ContainsRaw(code, "function") /\ (ContainsRaw(code, "{") \/ ContainsRaw(code, "=>"))
    THEN "javascript"
    ELSE IF ContainsRaw(code, "import ") \/ ContainsRaw(code, "def ") \/ ContainsRaw(code, "class ")
    THEN "python"
    ELSE IF ContainsRaw(code, "public class") \/ ContainsRaw(code, "private ")
    THEN "java"
    ELSE IF ContainsRaw(code, "#include") \/ ContainsRaw(code, "int main")
    THEN "c++"
    ELSE "unknown"

detect_language(code) ==
    IF ContainsRaw(code, "import ") \/ ContainsRaw(code, "def ") \/ ContainsRaw(code, "class ")
    THEN "python"
    ELSE IF ContainsRaw(code, "function") /\ (ContainsRaw(code, "{") \/ ContainsRaw(code, "=>"))
    THEN "javascript"
    ELSE IF ContainsRaw(code, "public class") \/ ContainsRaw(code, "private ")
    THEN "java"
    ELSE IF ContainsRaw(code, "#include") \/ ContainsRaw(code, "int main")
    THEN "c++"
    ELSE "unknown"

count_lines(code) == code.lines

\* min(len(lines) / 100.0, 1.0)
LineComplexity(code) == Min((count_lines(code) * Scale) \div 100, Scale)

\* calculate_complexity with the final min(..., 1.0) left out
calculate_complexity_uncapped(code, language) ==
    IF language # "python"
    THEN Ok(LineComplexity(code))
    ELSE IF code.parse.kind = "ok"
    THEN Ok(code.parse.functions * 400 + code.parse.classes * 600 + code.parse.loops * 300
            + code.parse.conditionals * 200 + code.parse.try_except * 400)
    ELSE IF code.parse.kind = "SyntaxError"
    THEN Ok(LineComplexity(code))
    ELSE Raise(code.parse.kind)

\* ast.parse(code) yields a tree (kind "ok", with the node counts the walk
\* finds), raises SyntaxError, or raises another exception.
calculate_complexity(code, language) ==
    IF language # "python"
    THEN Ok(LineComplexity(code))
    ELSE IF code.parse.kind = "ok"
    THEN LET p == code.parse
             \* complexity / 50.0, the weights 2, 3, 1.5, 1, 2 over 50
             c == p.functions * 400 + p.classes * 600 + p.loops * 300
                  + p.conditionals * 200 + p.try_except * 400
         IN Ok(Min(c, Scale))
    ELSE IF code.parse.kind = "SyntaxError"
    THEN Ok(LineComplexity(code))
    ELSE Raise(code.parse.kind)

\* ------------------------------------------------------------ TextAnalyzer
CategoryOrder ==
    <<"web_scraping", "data_processing", "api_wrapper", "automation", "bot",
      "ml_ai", "web_dev", "devops", "security", "testing">>

CATEGORIES ==
    [web_scraping |-> {"scrape", "scraping", "crawler", "spider", "beautifulsoup", "selenium"},
     data_processing |-> {"pandas", "numpy", "data", "csv", "excel", "dataframe"},
     api_wrapper |-> {"api", "rest", "endpoint", "wrapper", "client", "sdk"},
     automation |-> {"automate", "automation", "workflow", "task", "schedule"},
     bot |-> {"bot", "chatbot", "telegram", "discord", "slack"},
     ml_ai |-> {"machine learning", "ai", "neural", "model", "training", "tensorflow", "pytorch"},
     web_dev |-> {"flask", "django", "fastapi", "web", "server", "frontend"},
     devops |-> {"docker", "kubernetes", "ci/cd", "deployment", "infrastructure"},
     security |-> {"security", "encryption", "authentication", "oauth", "jwt"},
     testing |-> {"test", "testing", "pytest", "unittest", "qa"}]

ComplexityOrder == <<"beginner", "intermediate", "advanced">>

COMPLEXITY_KEYWORDS ==
    [beginner |-> {"simple", "basic", "beginner", "tutorial", "learn", "intro"},
     intermediate |-> {"intermediate", "moderate", "practical", "real-world"},
     advanced |-> {"advanced", "complex", "production", "scalable", "enterprise"}]

\* sum(1 for keyword in keywords if keyword in text_lower)
CategoryScore(text, category) ==
    Cardinality({k \in CATEGORIES[category] : ContainsLower(text, k)})

\* CategoryRank of a sort that puts the later of two equal scores first
CategoryRank_ties_reversed(text, i) ==
    Cardinality({j \in 1..Len(CategoryOrder) :
        /\ CategoryScore(text, CategoryOrder[j]) > 0
        /\ \/ CategoryScore(text, CategoryOrder[j]) > CategoryScore(text, CategoryOrder[i])
           \/ /\ CategoryScore(text, CategoryOrder[j]) = CategoryScore(text, CategoryOrder[i])
              /\ j > i})

\* sorted(items, key=score, reverse=True) is stable: position of the i-th
\* scored category among the scored ones
CategoryRank(text, i) ==
    Cardinality({j \in 1..Len(CategoryOrder) :
        /\ CategoryScore(text, CategoryOrder[j]) > 0
        /\ \/ CategoryScore(text, CategoryOrder[j]) > CategoryScore(text, CategoryOrder[i])
           \/ /\ CategoryScore(text, CategoryOrder[j]) = CategoryScore(text, CategoryOrder[i])
              /\ j < i})

sorted_categories(text) ==
    LET scored == {i \in 1..Len(CategoryOrder) : CategoryScore(text, CategoryOrder[i]) > 0}
    IN [r \in 1..Cardinality(scored) |->
           CategoryOrder[CHOOSE i \in scored : CategoryRank(text, i) = r - 1]]

categorize(text) ==
    LET sorted == sorted_categories(text)
    IN IF sorted = <<>>
       THEN [primary |-> "general", secondary |-> <<>>]
       ELSE [primary |-> sorted[1], secondary |-> SubSeq(sorted, 2, Min(4, Len(sorted)))]

\* detect_complexity_level that scans the tiers from the last to the first
detect_complexity_level_reversed(text) ==
    LET hits == {i \in 1..Len(ComplexityOrder) :
                    \E k \in COMPLEXITY_KEYWORDS[ComplexityOrder[i]] : ContainsLower(text, k)}
    IN IF hits = {} THEN "intermediate"
       ELSE ComplexityOrder[CHOOSE i \in hits : \A j \in hits : i >= j]

detect_complexity_level(text) ==
    LET hits == {i \in 1..Len(ComplexityOrder) :
                    \E k \in COMPLEXITY_KEYWORDS[ComplexityOrder[i]] : ContainsLower(text, k)}
    IN IF hits = {} THEN "intermediate"
       ELSE ComplexityOrder[CHOOSE i \in hits : \A j \in hits : i <= j]

has_tutorial_indicators(text) ==
    \E k \in {"tutorial", "how to", "guide", "step by step", "learn", "walkthrough"} :
        ContainsLower(text, k)

has_documentation_indicators(text) ==
    \E k \in {"documentation", "docs", "readme", "api reference", "manual"} :
        ContainsLower(text, k)

StopWords == {"the", "and", "for", "with", "this", "that", "from", "have", "are", "was"}

RECURSIVE FindAllWords(_)
FindAllWords(frags) ==
    IF frags = <<>> THEN <<>> ELSE Words(Head(frags)) \o FindAllWords(Tail(frags))

IsKeywordCandidate(w) == w \notin StopWords

\* Counter(words).most_common(max_keywords): by count, ties in order of first
\* occurrence
extract_keywords(text, max_keywords) ==
    LET words == SelectSeq(FindAllWords(text.frags), IsKeywordCandidate)
        Count(w) == Cardinality({i \in 1..Len(words) : words[i] = w})
        First(w) == CHOOSE i \in 1..Len(words) : words[i] = w /\ \A j \in 1..(i - 1) : words[j] # w
        distinct == {words[i] : i \in 1..Len(words)}
        Rank(w) == Cardinality({v \in distinct :
                       Count(v) > Count(w) \/ (Count(v) = Count(w) /\ First(v) < First(w))})
    IN [r \in 1..Min(max_keywords, Cardinality(distinct)) |->
           CHOOSE w \in distinct : Rank(w) = r - 1]

\* ------------------------------------------------------------ QualityScorer
\* calculate_popularity_score with github stars normalised by 10000
calculate_popularity_score_per_10000(metadata, source_type) ==
    IF source_type = "github"
    THEN LET stars_text == Get(metadata, "stars", <<"0">>)
         IN IF Split(stars_text) = <<>>
            THEN Raise("IndexError")
            ELSE LET digits == StripNonDigits(Split(stars_text)[1])
                     stars == DecimalValue(IF digits = <<>> THEN <<"0">> ELSE digits)
                 IN Ok(Min((stars * Scale) \div 10000, Scale))
    ELSE IF source_type = "reddit"
    THEN LET upvotes_text == Get(metadata, "upvotes", <<"0">>)
         IN IF IsDigitStr(upvotes_text)
            THEN IF ParseInt(upvotes_text).exc = "none"
                 THEN Ok(Min((ParseInt(upvotes_text).val * Scale) \div 100, Scale))
                 ELSE ParseInt(upvotes_text)
            ELSE Ok(0)
    ELSE Ok(Scale \div 2)

calculate_popularity_score(metadata, source_type) ==
    IF source_type = "github"
    THEN LET stars_text == Get(metadata, "stars", <<"0">>)
         IN IF Split(stars_text) = <<>>
            THEN Raise("IndexError")
            ELSE LET digits == StripNonDigits(Split(stars_text)[1])
                     stars == DecimalValue(IF digits = <<>> THEN <<"0">> ELSE digits)
                 IN Ok(Min((stars * Scale) \div 1000, Scale))
    ELSE IF source_type = "reddit"
    THEN LET upvotes_text == Get(metadata, "upvotes", <<"0">>)
         IN IF IsDigitStr(upvotes_text)
            THEN IF ParseInt(upvotes_text).exc = "none"
                 THEN Ok(Min((ParseInt(upvotes_text).val * Scale) \div 100, Scale))
                 ELSE ParseInt(upvotes_text)
            ELSE Ok(0)
    ELSE Ok(Scale \div 2)

calculate_author_reputation(metadata, source_type) ==
    IF Get(metadata, "author", "") \in {"AutoModerator", "unknown", ""}
    THEN (3 * Scale) \div 10
    ELSE (6 * Scale) \div 10

calculate_recency_score(timestamp) == Scale

\* features.get(key, 0.5) for the three signals; 0.3, 0.2, 0.2, 0.3 as tenths
estimate_value(features) ==
    LET value == ( Get(features, "popularity_score", Scale \div 2) * 3
                 + Get(features, "code_complexity", Scale \div 2) * 2
                 + Get(features, "author_reputation", Scale \div 2) * 2
                 + (IF Get(features, "has_code", FALSE) THEN Scale ELSE (3 * Scale) \div 10) * 3
                 ) \div 10
    IN Min(value, Scale)

\* ------------------------------------------------------------ identifiers
\* hash(source_url) % 1000000.  The hash of a str depends on the interpreter
\* process (PYTHONHASHSEED is drawn at start-up): seed names the process's
\* draw.  Under seed 2 two of the URLs fall into one bucket.
HashBucket(seed, url) ==
    CASE seed = 1 /\ url = "https://github.com/a/tut" -> 911163
      [] seed = 1 /\ url = "https://old.reddit.com/r/b" -> 415333
      [] seed = 1 /\ url = "https://github.com/c/code" -> 7
      [] seed = 1 /\ url = "https://news.example/d" -> 60
      [] seed = 1 /\ url = "https://old.reddit.com/r/e" -> 999999
      [] seed = 2 /\ url = "https://github.com/a/tut" -> 865070
      [] seed = 2 /\ url = "https://old.reddit.com/r/b" -> 12
      [] seed = 2 /\ url = "https://github.com/c/code" -> 865070
      [] seed = 2 /\ url = "https://news.example/d" -> 0
      [] seed = 2 /\ url = "https://old.reddit.com/r/e" -> 865070

HashSeeds == {1, 2}

\* The characters of a source type.
Chars(source_type) ==
    CASE source_type = "github" -> <<"g", "i", "t", "h", "u", "b">>
      [] source_type = "reddit" -> <<"r", "e", "d", "d", "i", "t">>
      [] source_type = "hacker_news" -> <<"h", "a", "c", "k", "e", "r", "_", "n", "e", "w", "s">>

DigitChar(n) ==
    CASE n = 0 -> "0" [] n = 1 -> "1" [] n = 2 -> "2" [] n = 3 -> "3" [] n = 4 -> "4"
      [] n = 5 -> "5" [] n = 6 -> "6" [] n = 7 -> "7" [] n = 8 -> "8" [] n = 9 -> "9"

\* str(n) of an integer n >= 0
RECURSIVE Digits(_)
Digits(n) == IF n < 10 THEN <<DigitChar(n)>> ELSE Digits(n \div 10) \o <<DigitChar(n % 10)>>

\* f"{source_type}_{bucket}"
FormatLoopId(source_type, bucket) == Chars(source_type) \o <<"_">> \o Digits(bucket)

\* s.split(sep): every piece, the empty ones too
RECURSIVE SplitOnFrom(_, _, _, _)
SplitOnFrom(s, sep, i, cur) ==
    IF i > Len(s) THEN <<cur>>
    ELSE IF s[i] = sep THEN <<cur>> \o SplitOnFrom(s, sep, i + 1, <<>>)
    ELSE SplitOnFrom(s, sep, i + 1, Append(cur, s[i]))

SplitOn(s, sep) == SplitOnFrom(s, sep, 1, <<>>)

\* int(loop_id.split('_')[1])
ParseLoopBucket(loop_id) ==
    IF Len(SplitOn(loop_id, "_")) < 2 THEN Raise("IndexError")
    ELSE ParseInt(SplitOn(loop_id, "_")[2])

\* ------------------------------------------------------------ FeatureExtractor
EmptyText == [len |-> 0, lines |-> 0, frags |-> <<>>, parse |-> [kind |-> "SyntaxError"]]

\* the indicators without 'function'
CodeIndicators_python_only == {"def ", "import ", "class "}

CodeIndicators == {"def ", "import ", "class ", "function"}

\* The record ExtractedFeatures.to_dict() gives, from the values computed in
\* extract_features after the subscript reads have succeeded.
BuildFeatures(seed, discovery, code_complexity, popularity_score) ==
    LET source_type == discovery["source_type"]
        title == Get(discovery["metadata"], "title", EmptyText)
        description == Get(discovery, "raw_content", EmptyText)
        full_text == Concat(title, description)
        has_code == description.len > 100 /\ \E ind \in CodeIndicators : ContainsRaw(description, ind)
        cat == categorize(full_text)
        author_reputation == calculate_author_reputation(discovery["metadata"], source_type)
    IN [loop_id |-> FormatLoopId(source_type, HashBucket(seed, discovery["source_url"])),
        source_url |-> discovery["source_url"],
        source_type |-> source_type,
        has_code |-> has_code,
        code_language |-> IF has_code THEN detect_language(description) ELSE None,
        code_complexity |-> code_complexity,
        code_lines |-> IF has_code THEN count_lines(description) ELSE 0,
        title_length |-> title.len,
        description_length |-> description.len,
        has_tutorial |-> has_tutorial_indicators(full_text),
        has_documentation |-> has_documentation_indicators(full_text),
        popularity_score |-> popularity_score,
        author_reputation |-> author_reputation,
        recency_score |-> calculate_recency_score(discovery["discovery_timestamp"]),
        primary_category |-> cat.primary,
        secondary_categories |-> cat.secondary,
        keywords |-> extract_keywords(full_text, 10),
        automation_type |-> IF cat.primary \in DOMAIN CATEGORIES THEN cat.primary ELSE "general",
        complexity_level |-> detect_complexity_level(full_text),
        estimated_value |-> estimate_value(
            [popularity_score |-> popularity_score, code_complexity |-> code_complexity,
             author_reputation |-> author_reputation, has_code |-> has_code])]

\* extract_features(discovery): the feature record, or the exception of the
\* first statement that raises.
extract_features(seed, discovery) ==
    IF "source_type" \notin DOMAIN discovery \/ "source_url" \notin DOMAIN discovery
       \/ "metadata" \notin DOMAIN discovery
    THEN Raise("KeyError")
    ELSE LET description == Get(discovery, "raw_content", EmptyText)
             has_code == description.len > 100
                         /\ \E ind \in CodeIndicators : ContainsRaw(description, ind)
             complexity == IF has_code
                           THEN calculate_complexity(description, detect_language(description))
                           ELSE Ok(0)
             popularity == calculate_popularity_score(discovery["metadata"], discovery["source_type"])
         IN IF complexity.exc # "none" THEN complexity
            ELSE IF popularity.exc # "none" THEN popularity
            ELSE IF "discovery_timestamp" \notin DOMAIN discovery THEN Raise("KeyError")
            ELSE Ok(BuildFeatures(seed, discovery, complexity.val, popularity.val))

\* process_discoveries with the try around the whole loop: the first failure
\* ends the batch
RECURSIVE process_discoveries_abort(_, _)
process_discoveries_abort(seed, discoveries) ==
    IF discoveries = <<>> THEN <<>>
    ELSE LET r == extract_features(seed, Head(discoveries))
         IN IF r.exc = "none"
            THEN <<r.val>> \o process_discoveries_abort(seed, Tail(discoveries))
            ELSE <<>>

\* process_discoveries: the list written to output_file and returned
RECURSIVE process_discoveries(_, _)
process_discoveries(seed, discoveries) ==
    IF discoveries = <<>> THEN <<>>
    ELSE LET r == extract_features(seed, Head(discoveries))
         IN (IF r.exc = "none" THEN <<r.val>> ELSE <<>>)
            \o process_discoveries(seed, Tail(discoveries))

\* ------------------------------------------------------------ HeuristicQualityScorer
\* WEIGHTS, as hundredths
WEIGHTS ==
    [popularity |-> 25, code_quality |-> 20, content_quality |-> 20,
     categorization |-> 15, recency |-> 10, author |-> 10]

\* thresholds, as hundredths
APPROVAL_THRESHOLD == 60
REJECTION_THRESHOLD == 35

\* HeuristicQualityScorer.__init__
\* The class attributes score_loop reads through self.
ClassBody ==
    [WEIGHTS |-> WEIGHTS, APPROVAL_THRESHOLD |-> APPROVAL_THRESHOLD,
     REJECTION_THRESHOLD |-> REJECTION_THRESHOLD]

\* HeuristicQualityScorer.__init__ on a class with these attributes: it sets
\* the three counters and looks at nothing else.
Construct(class) ==
    [WEIGHTS |-> class.WEIGHTS, APPROVAL_THRESHOLD |-> class.APPROVAL_THRESHOLD,
     REJECTION_THRESHOLD |-> class.REJECTION_THRESHOLD,
     approved_count |-> 0, rejected_count |-> 0, review_count |-> 0]

NewScorer == Construct(ClassBody)

high_value_categories == {"automation", "web_scraping", "api_wrapper", "bot", "data_processing"}

\* f"{x:.2f}" of a signal x
Fmt2(x) == (x * 100 + Scale \div 2) \div Scale

\* f"{overall_score:.2f}"
Fmt2Overall(x) == (x + Scale \div 2) \div Scale

\* The keys score_loop subscripts, in the order it reads them.
ScoreKeys(features) ==
    <<"loop_id", "popularity_score", "has_code">>
    \o (IF Get(features, "has_code", FALSE) THEN <<"code_complexity", "code_lines">> ELSE <<>>)
    \o <<"description_length", "has_tutorial", "has_documentation", "primary_category",
         "recency_score", "author_reputation">>

\* code_quality_score with complexity and size weighted evenly
code_quality_score_even(features) ==
    IF features["has_code"]
    THEN Min((features["code_complexity"] * 5
              + Min((features["code_lines"] * Scale) \div 100, Scale) * 5) \div 10, Scale)
    ELSE (3 * Scale) \div 10

code_quality_score(features) ==
    IF features["has_code"]
    THEN Min((features["code_complexity"] * 6
              + Min((features["code_lines"] * Scale) \div 100, Scale) * 4) \div 10, Scale)
    ELSE (3 * Scale) \div 10

content_quality_score(features) ==
    Min( (IF features["description_length"] >= 200 THEN (40 * Scale) \div 100
          ELSE IF features["description_length"] < 50 THEN (10 * Scale) \div 100
          ELSE (25 * Scale) \div 100)
         + (IF features["has_tutorial"] THEN (30 * Scale) \div 100 ELSE 0)
         + (IF features["has_documentation"] THEN (30 * Scale) \div 100 ELSE 0),
         Scale)

categorization_score(features) ==
    IF features["primary_category"] \in high_value_categories THEN (80 * Scale) \div 100
    ELSE IF features["primary_category"] = "general" THEN (30 * Scale) \div 100
    ELSE (50 * Scale) \div 100

\* overall_score, in units of 1 / (100 * Scale)
overall_score(self, features) ==
    self.WEIGHTS.popularity * features["popularity_score"]
    + self.WEIGHTS.code_quality * code_quality_score(features)
    + self.WEIGHTS.content_quality * content_quality_score(features)
    + self.WEIGHTS.categorization * categorization_score(features)
    + self.WEIGHTS.recency * features["recency_score"]
    + self.WEIGHTS.author * features["author_reputation"]

\* the approval decision with > for >=
decide_strict(self, overall) ==
    IF overall > self.APPROVAL_THRESHOLD * Scale THEN "approved"
    ELSE IF overall < self.REJECTION_THRESHOLD * Scale THEN "rejected"
    ELSE "needs_review"

\* the approval decision with a quota: nothing is approved once the scorer
\* has approved two
decide_with_quota(self, overall) ==
    IF overall >= self.APPROVAL_THRESHOLD * Scale /\ self.approved_count < 2 THEN "approved"
    ELSE IF overall < self.REJECTION_THRESHOLD * Scale THEN "rejected"
    ELSE "needs_review"

\* The if / elif / else of the approval decision.  self's counters are in
\* scope there, as every attribute of the scorer is.
decide(self, overall) ==
    IF overall >= self.APPROVAL_THRESHOLD * Scale THEN "approved"
    ELSE IF overall < self.REJECTION_THRESHOLD * Scale THEN "rejected"
    ELSE "needs_review"

\* the confidence with the operands of the rejected branch swapped
confidence_swapped(self, decision, overall) ==
    IF decision = "approved"
    THEN MinOne(overall - self.APPROVAL_THRESHOLD * Scale, (100 - self.APPROVAL_THRESHOLD) * Scale)
    ELSE IF decision = "rejected"
    THEN MinOne(overall - self.REJECTION_THRESHOLD * Scale, self.REJECTION_THRESHOLD * Scale)
    ELSE [num |-> 1, den |-> 2]

\* the confidence with the approved margin divided by the threshold itself
confidence_over_threshold(self, decision, overall) ==
    IF decision = "approved"
    THEN MinOne(overall - self.APPROVAL_THRESHOLD * Scale, self.APPROVAL_THRESHOLD * Scale)
    ELSE IF decision = "rejected"
    THEN MinOne(self.REJECTION_THRESHOLD * Scale - overall, self.REJECTION_THRESHOLD * Scale)
    ELSE [num |-> 1, den |-> 2]

confidence_of(self, decision, overall) ==
    IF decision = "approved"
    THEN MinOne(overall - self.APPROVAL_THRESHOLD * Scale, (100 - self.APPROVAL_THRESHOLD) * Scale)
    ELSE IF decision = "rejected"
    THEN MinOne(self.REJECTION_THRESHOLD * Scale - overall, self.REJECTION_THRESHOLD * Scale)
    ELSE [num |-> 1, den |-> 2]

\* the counting with rejected counted as needs_review
count_decision_rejected_as_review(self, decision) ==
    IF decision = "approved" THEN [self EXCEPT !.approved_count = @ + 1]
    ELSE [self EXCEPT !.review_count = @ + 1]

count_decision(self, decision) ==
    IF decision = "approved" THEN [self EXCEPT !.approved_count = @ + 1]
    ELSE IF decision = "rejected" THEN [self EXCEPT !.rejected_count = @ + 1]
    ELSE [self EXCEPT !.review_count = @ + 1]

\* the reasoning with the documentation note ahead of the tutorial note
reasoning_of_swapped(features, overall, decision) ==
    (IF features["popularity_score"] >= (7 * Scale) \div 10
     THEN << <<"High popularity", Fmt2(features["popularity_score"])>> >>
     ELSE IF features["popularity_score"] <= (2 * Scale) \div 10
     THEN << <<"Low popularity", Fmt2(features["popularity_score"])>> >>
     ELSE <<>>)
    \o (IF features["has_code"]
        THEN << <<"Contains code", Fmt2(features["code_complexity"])>> >>
        ELSE << <<"No code detected">> >>)
    \o (IF features["description_length"] >= 200 THEN << <<"Detailed description">> >>
        ELSE IF features["description_length"] < 50 THEN << <<"Very short description">> >>
        ELSE <<>>)
    \o (IF features["has_documentation"] THEN << <<"Has documentation">> >> ELSE <<>>)
    \o (IF features["has_tutorial"] THEN << <<"Has tutorial content">> >> ELSE <<>>)
    \o (IF features["primary_category"] \in high_value_categories
        THEN << <<"High-value category", features["primary_category"]>> >>
        ELSE IF features["primary_category"] = "general"
        THEN << <<"General category (unclear automation value)">> >>
        ELSE <<>>)
    \o << <<"Overall score", Fmt2Overall(overall), decision>> >>

reasoning_of(features, overall, decision) ==
    (IF features["popularity_score"] >= (7 * Scale) \div 10
     THEN << <<"High popularity", Fmt2(features["popularity_score"])>> >>
     ELSE IF features["popularity_score"] <= (2 * Scale) \div 10
     THEN << <<"Low popularity", Fmt2(features["popularity_score"])>> >>
     ELSE <<>>)
    \o (IF features["has_code"]
        THEN << <<"Contains code", Fmt2(features["code_complexity"])>> >>
        ELSE << <<"No code detected">> >>)
    \o (IF features["description_length"] >= 200 THEN << <<"Detailed description">> >>
        ELSE IF features["description_length"] < 50 THEN << <<"Very short description">> >>
        ELSE <<>>)
    \o (IF features["has_tutorial"] THEN << <<"Has tutorial content">> >> ELSE <<>>)
    \o (IF features["has_documentation"] THEN << <<"Has documentation">> >> ELSE <<>>)
    \o (IF features["primary_category"] \in high_value_categories
        THEN << <<"High-value category", features["primary_category"]>> >>
        ELSE IF features["primary_category"] = "general"
        THEN << <<"General category (unclear automation value)">> >>
        ELSE <<>>)
    \o << <<"Overall score", Fmt2Overall(overall), decision>> >>

\* score_loop(self, features): [exc, val: the QualityScore, self: the scorer
\* after the call]
score_loop(self, features) ==
    IF \E i \in 1..Len(ScoreKeys(features)) : ScoreKeys(features)[i] \notin DOMAIN features
    THEN [exc |-> "KeyError", self |-> self]
    ELSE LET overall == overall_score(self, features)
             decision == decide(self, overall)
         IN [exc |-> "none",
             val |-> [loop_id |-> features["loop_id"],
                      overall_score |-> overall,
                      approval_decision |-> decision,
                      confidence |-> confidence_of(self, decision, overall),
                      reasoning |-> reasoning_of(features, overall, decision)],
             self |-> count_decision(self, decision)]

\* score_all_loops with the try around the whole loop: the first failure ends it
RECURSIVE score_all_loops_abort(_, _)
score_all_loops_abort(self, all_features) ==
    IF all_features = <<>> THEN [scores |-> <<>>, self |-> self]
    ELSE LET r == score_loop(self, Head(all_features))
         IN IF r.exc = "none"
            THEN LET rest == score_all_loops_abort(r.self, Tail(all_features))
                 IN [scores |-> <<r.val>> \o rest.scores, self |-> rest.self]
            ELSE [scores |-> <<>>, self |-> r.self]

\* score_all_loops(self, all_features): [scores, self]
RECURSIVE score_all_loops(_, _)
score_all_loops(self, all_features) ==
    IF all_features = <<>> THEN [scores |-> <<>>, self |-> self]
    ELSE LET r == score_loop(self, Head(all_features))
             rest == score_all_loops(r.self, Tail(all_features))
         IN [scores |-> (IF r.exc = "none" THEN <<r.val>> ELSE <<>>) \o rest.scores,
             self |-> rest.self]

\* get_summary without the total > 0 guard: the rates keep a zero denominator
get_summary_unguarded(self) ==
    LET total == self.approved_count + self.rejected_count + self.review_count
    IN [total |-> total,
        approved |-> self.approved_count,
        rejected |-> self.rejected_count,
        needs_review |-> self.review_count,
        approval_rate |-> [num |-> self.approved_count, den |-> total],
        rejection_rate |-> [num |-> self.rejected_count, den |-> total]]

\* get_summary(); a rate is a fraction [num, den], 0 when total is 0
get_summary(self) ==
    LET total == self.approved_count + self.rejected_count + self.review_count
    IN [total |-> total,
        approved |-> self.approved_count,
        rejected |-> self.rejected_count,
        needs_review |-> self.review_count,
        approval_rate |-> IF total > 0 THEN [num |-> self.approved_count, den |-> total]
                          ELSE [num |-> 0, den |-> 1],
        rejection_rate |-> IF total > 0 THEN [num |-> self.rejected_count, den |-> total]
                           ELSE [num |-> 0, den |-> 1]]

\* ------------------------------------------------------------ AGIOSPipeline.filter_approved_loops
\* features_by_id.get(loop_id): the dict comprehension keeps, for one key,
\* the last feature record carrying it
features_by_id_get(features, loop_id) ==
    LET hits == {i \in 1..Len(features) : features[i]["loop_id"] = loop_id}
    IN IF hits = {} THEN Null
       ELSE Some(features[CHOOSE i \in hits : \A j \in hits : j <= i])

\* next((d for d in discoveries if hash(d['source_url']) % 1000000
\*       == int(loop_id.split('_')[1])), None)
RECURSIVE find_discovery(_, _, _)
find_discovery(seed, discoveries, loop_id) ==
    IF discoveries = <<>> THEN Ok(Null)
    ELSE IF "source_url" \notin DOMAIN Head(discoveries) THEN Raise("KeyError")
    ELSE IF ParseLoopBucket(loop_id).exc # "none" THEN ParseLoopBucket(loop_id)
    ELSE IF HashBucket(seed, Head(discoveries)["source_url"]) = ParseLoopBucket(loop_id).val
    THEN Ok(Some(Head(discoveries)))
    ELSE find_discovery(seed, Tail(discoveries), loop_id)

\* if score['approval_decision'] == 'approved'
is_approved(score) == score["approval_decision"] = "approved"

\* The loop over scores: the approved_loops list, or the exception that
\* leaves the method.
RECURSIVE filter_loop(_, _, _, _)
filter_loop(seed, scores, features, discoveries) ==
    IF scores = <<>> THEN Ok(<<>>)
    ELSE LET score == Head(scores)
             feature == features_by_id_get(features, score["loop_id"])
             found == find_discovery(seed, discoveries, score["loop_id"])
             rest == filter_loop(seed, Tail(scores), features, discoveries)
         IN IF is_approved(score) /\ feature # Null
            THEN IF found.exc # "none" THEN found
                 ELSE IF rest.exc # "none" THEN rest
                 ELSE Ok(<<[loop_id |-> score["loop_id"], score |-> score,
                            features |-> feature[1], discovery |-> found.val]>> \o rest.val)
            ELSE rest

filter_approved_loops(seed, scores, features, discoveries) ==
    IF \E i \in 1..Len(features) : "loop_id" \notin DOMAIN features[i]
    THEN Raise("KeyError")
    ELSE filter_loop(seed, scores, features, discoveries)

\* ------------------------------------------------------------ inputs
\* Texts (see the header): length, non-blank lines, fragments, ast.parse.
NoTree == [kind |-> "SyntaxError"]
Tree(f, c, l, i, t) ==
    [kind |-> "ok", functions |-> f, classes |-> c, loops |-> l, conditionals |-> i, try_except |-> t]

TextHi == [len |-> 2, lines |-> 1, frags |-> <<>>, parse |-> NoTree]
TextTutDocs == [len |-> 13, lines |-> 1, frags |-> <<"tutorial", "docs">>, parse |-> NoTree]
TextMid == [len |-> 100, lines |-> 4, frags |-> <<"def ", "scraper", "chatbot">>, parse |-> Tree(1, 0, 0, 0, 0)]
TextLong == [len |-> 200, lines |-> 3, frags |-> <<"flask", "advanced", "readme">>, parse |-> NoTree]
TextJs == [len |-> 101, lines |-> 5, frags |-> <<"function", "{", "api">>, parse |-> NoTree]
TextPy150 == [len |-> 3000, lines |-> 150, frags |-> <<"def ", "class ", "tutorial">>,
              parse |-> Tree(3, 1, 2, 0, 0)]
TextPyHuge == [len |-> 9000, lines |-> 400, frags |-> <<"import ", "def ", "pandas", "how to", "docs">>,
               parse |-> Tree(12, 4, 6, 9, 3)]
TextPyBad == [len |-> 250, lines |-> 20, frags |-> <<"import ", "training", "simple">>, parse |-> NoTree]
TextPyDeep == [len |-> 250, lines |-> 2, frags |-> <<"def ">>, parse |-> [kind |-> "RecursionError"]]

TitleRepo == [len |-> 8, lines |-> 1, frags |-> <<>>, parse |-> NoTree]
TitleAuto == [len |-> 26, lines |-> 1, frags |-> <<"automate", "workflow">>, parse |-> NoTree]
TitleWeb == [len |-> 9, lines |-> 1, frags |-> <<"flask">>, parse |-> NoTree]

Texts == {EmptyText, TextHi, TextTutDocs, TextMid, TextLong, TextJs, TextPy150, TextPyHuge,
          TextPyBad, TextPyDeep}

\* stars and upvotes strings
NumberTexts ==
    { <<>>, <<" ">>, <<"0">>, <<"3", "8">>, <<"5", "0">>, <<"3", "8", "0">>, <<"7", "8", "0">>,
      <<"1", ",", "5", "0", "0", " ", "s", "t", "a", "r", "s">>, <<"a", "b", "c">>, <<"sup2">> }

Timestamp == "2025-10-17T00:00:00"

DiscoveryFields ==
    {"source_url", "source_type", "content_type", "raw_content", "metadata", "discovery_timestamp"}

Discovery(url, type, raw, metadata) ==
    [source_url |-> url, discovery_timestamp |-> Timestamp, source_type |-> type,
     content_type |-> "text_description", raw_content |-> raw, metadata |-> metadata]

\* a record without one of its keys
Drop(d, key) == [k \in DOMAIN d \ {key} |-> d[k]]

\* What the scraper agents and other collaborators write.
RepoTut ==
    Discovery("https://github.com/a/tut", "github", TextTutDocs,
              [title |-> TitleRepo, author |-> "alice", stars |-> <<"7", "8", "0">>,
               language |-> "python"])
RepoCode ==
    Discovery("https://github.com/c/code", "github", TextPy150,
              [title |-> TitleAuto, author |-> "alice",
               stars |-> <<"1", "2", "0", "0", " ", "s", "t", "a", "r", "s">>, language |-> "python"])
\* a repository whose star span is there but empty
RepoBlank ==
    Discovery("https://github.com/a/tut", "github", TextTutDocs,
              [title |-> TitleRepo, author |-> "alice", stars |-> <<>>, language |-> "python"])
PostLow ==
    Discovery("https://old.reddit.com/r/b", "reddit", TextHi,
              [title |-> TextHi, author |-> "AutoModerator", upvotes |-> <<"0">>,
               subreddit |-> "Python"])
PostMid ==
    Discovery("https://old.reddit.com/r/e", "reddit", TextHi,
              [title |-> TextHi, author |-> "", upvotes |-> <<"3", "8">>, subreddit |-> "Python"])
\* subsequences of a sequence of fragments
RECURSIVE SubSeqs(_)
SubSeqs(frags) ==
    IF frags = <<>> THEN {<<>>}
    ELSE LET rest == SubSeqs(Tail(frags))
         IN rest \cup {<<Head(frags)>> \o r : r \in rest}

\* a description of 150 characters made of the given fragments
Snippet(frags) == [len |-> 150, lines |-> 5, frags |-> frags, parse |-> NoTree]

\* Descriptions that mix the markers of several languages.
LanguageTexts ==
    {Snippet(frags) : frags \in SubSeqs(<<"def ", "function", "{", "private ", "#include">>)}
    \cup {Snippet(<<"function", "=>", "import ">>), Snippet(<<"function", "=>", "int main">>),
          Snippet(<<"function", "public class", "int main">>), Snippet(<<"class ", "int main">>),
          Snippet(<<"function", "int main">>)}

\* Descriptions that mix the keywords of several categories, some of them
\* with two keywords of one category.
CategoryTexts ==
    {Snippet(frags) :
        frags \in SubSeqs(<<"testing", "flask", "chatbot", "automate", "pandas", "scraper">>)}
    \cup {Snippet(<<"BeautifulSoup", "scraper", "data">>)}

\* Descriptions that mix the keywords of several complexity tiers.
LevelTexts ==
    {Snippet(frags) : frags \in SubSeqs(<<"advanced", "practical", "simple">>)}
    \cup {Snippet(<<"advanced", "Tutorial">>)}

\* "1200 stars this week"
Stars1200 ==
    <<"1", "2", "0", "0", " ", "s", "t", "a", "r", "s", " ", "t", "h", "i", "s", " ",
      "w", "e", "e", "k">>

\* A popular repository of 150 lines of Python, under a title of no category,
\* of a high-value category, of another category.
RepoPopular(title) ==
    Discovery("https://github.com/c/code", "github", TextPy150,
              [title |-> title, author |-> "alice", stars |-> Stars1200])

\* The records externally supplied collections are made of: three well-formed
\* ones and one that lacks its source_url.
Pool == {RepoTut, RepoCode, PostLow, Drop(RepoCode, "source_url")}

\* sequences over S of length at most n
SeqsUpTo(S, n) == UNION {[1..k -> S] : k \in 0..n}

Batches == SeqsUpTo(Pool, MaxBatch)

\* The records supplied feature collections are made of: two an extractor
\* produced and one that lost its author_reputation on the way.
FeaturePool ==
    {extract_features(1, RepoTut).val, extract_features(1, PostLow).val,
     Drop(extract_features(1, RepoCode).val, "author_reputation")}

FeatureBatches == SeqsUpTo(FeaturePool, MaxBatch)

\* One-record collections over a wide range of field values.
Metadatas(number_key) ==
    {[k \in {"title", "author", number_key} |->
         IF k = "title" THEN p[1] ELSE IF k = "author" THEN p[2] ELSE n] :
        p \in {<<TitleRepo, "alice">>, <<TitleAuto, "unknown">>}, n \in NumberTexts}
    \cup {<<>>}

Singles ==
    {<<Discovery("https://github.com/a/tut", "github", raw, metadata)>> :
        raw \in Texts, metadata \in Metadatas("stars")}
    \cup {<<Discovery("https://old.reddit.com/r/b", "reddit", raw, metadata)>> :
        raw \in Texts, metadata \in Metadatas("upvotes")}
    \cup {<<Discovery("https://news.example/d", "hacker_news", raw, metadata)>> :
        raw \in Texts,
        metadata \in {[title |-> TitleRepo, author |-> "alice"], [title |-> TitleAuto], <<>>}}
    \cup {<<Drop(d, key)>> : d \in {RepoTut, RepoCode}, key \in DiscoveryFields}
    \cup {<<RepoPopular(title)>> : title \in {TitleRepo, TitleAuto, TitleWeb}}
    \cup {<<Discovery("https://github.com/a/tut", "github", raw,
                      [title |-> TitleRepo, author |-> "alice", stars |-> <<"3", "8">>])>> :
             raw \in LanguageTexts \cup CategoryTexts \cup LevelTexts}

\* ------------------------------------------------------------ state
VARIABLES
    discoveries_file,     \* data/discoveries.json
    features_file,        \* data/extracted_features.json
    scores_file,          \* data/quality_scores.json
    approved_file,        \* data/approved_loops.json
    pipeline_stats_file,  \* data/pipeline_stats.json
    quality_scorer,       \* the HeuristicQualityScorer of the pipeline: its three counters
    scraper,              \* the ScraperOrchestrator: each agent's discovered_loops, all_discoveries
    hashseed,             \* the str hash seed of the running interpreter process
    pc,                   \* Idle, the stage run_full_pipeline is about to execute, Done, Failed
    run,                  \* the locals of run_full_pipeline
    called,               \* the last top-level call of this process, none before the first
    outcome,              \* how that call ended: none, returned, or the exception
    calls                 \* top-level calls and restarts so far

vars == <<discoveries_file, features_file, scores_file, approved_file, pipeline_stats_file,
          quality_scorer, scraper, hashseed, pc, run, called, outcome, calls>>

\* A file of the data directory: absent, or holding a JSON value.
NoFile == [exists |-> FALSE, data |-> <<>>]
File(data) == [exists |-> TRUE, data |-> data]

NewScraper == [github |-> <<>>, reddit |-> <<>>, all_discoveries |-> <<>>]

NoRun == [num_discoveries |-> 0, num_features |-> 0, scoring_summary |-> get_summary(NewScorer)]

\* what an agent finds on its pages in one scraping cycle
GithubListings == {<<>>, <<RepoBlank>>, <<RepoTut, RepoCode>>}
RedditListings == {<<>>, <<PostLow>>, <<PostMid, PostLow>>}

Resting == {"Idle", "Done", "Failed"}

InitProcess(class) ==
    /\ quality_scorer = Construct(class)
    /\ scraper = NewScraper
    /\ hashseed \in HashSeeds
    /\ pc = "Idle"
    /\ run = NoRun
    /\ called = "none"
    /\ outcome = "none"
    /\ calls = 0

InitMemory == InitProcess(ClassBody)

\* The directory holds a discovery collection, or a feature collection, or neither.
InitFiles(collections, feature_collections) ==
    /\ \/ /\ discoveries_file \in {File(c) : c \in collections} \cup {NoFile}
          /\ features_file = NoFile
       \/ /\ discoveries_file = NoFile
          /\ features_file \in {File(c) : c \in feature_collections}
    /\ scores_file = NoFile
    /\ approved_file = NoFile
    /\ pipeline_stats_file = NoFile

\* The data directory holds a collection some collaborator supplied.
Init == InitMemory /\ InitFiles(Batches, FeatureBatches)

\* The data directory holds one record.
InitSingle == InitMemory /\ InitFiles(Singles, {})

\* Class bodies edited away from the shipped one: weights that sum to 1.10,
\* a rejection threshold equal to the approval threshold, one above it.
EditedClassBodies ==
    {[ClassBody EXCEPT !.WEIGHTS.popularity = 35],
     [ClassBody EXCEPT !.REJECTION_THRESHOLD = ClassBody.APPROVAL_THRESHOLD],
     [ClassBody EXCEPT !.REJECTION_THRESHOLD = ClassBody.APPROVAL_THRESHOLD + 10]}

\* The program runs with an edited class body on a supplied collection.
InitEdited ==
    /\ \E class \in EditedClassBodies : InitProcess(class)
    /\ InitFiles(Batches, FeatureBatches)

\* The data directory is empty.
InitEmpty == InitMemory /\ InitFiles({}, {})

\* ------------------------------------------------------------ operations
\* A stage method of the pipeline called by itself, while no call runs.
TopLevel(method) ==
    /\ pc \in Resting
    /\ calls < MaxCalls
    /\ calls' = calls + 1
    /\ called' = method
    /\ UNCHANGED <<pc, run>>

\* run_feature_extraction: process_discoveries reads discoveries_file and
\* writes features_file.
FeatureExtraction(features) ==
    /\ discoveries_file.exists
    /\ features_file' = File(features)
    /\ UNCHANGED <<discoveries_file, scores_file, approved_file, pipeline_stats_file,
                   quality_scorer, scraper, hashseed>>

\* open(..., 'r') of a file that is absent: the call ends there
FileNotFound ==
    /\ outcome' = "FileNotFoundError"
    /\ UNCHANGED <<discoveries_file, features_file, scores_file, approved_file,
                   pipeline_stats_file, quality_scorer, scraper, hashseed>>

CallFeatureExtraction ==
    /\ TopLevel("run_feature_extraction")
    /\ IF discoveries_file.exists
       THEN /\ FeatureExtraction(process_discoveries(hashseed, discoveries_file.data))
            /\ outcome' = "returned"
       ELSE FileNotFound

\* run_quality_scoring: score_all_loops reads features_file and writes
\* scores_file; the scorer's counters move on.
QualityScoring(r) ==
    /\ features_file.exists
    /\ scores_file' = File(r.scores)
    /\ quality_scorer' = r.self
    /\ UNCHANGED <<discoveries_file, features_file, approved_file, pipeline_stats_file,
                   scraper, hashseed>>

CallQualityScoring ==
    /\ TopLevel("run_quality_scoring")
    /\ IF features_file.exists
       THEN /\ QualityScoring(score_all_loops(quality_scorer, features_file.data))
            /\ outcome' = "returned"
       ELSE FileNotFound

\* filter_approved_loops reads the three files and writes approved_file; an
\* exception leaves the method before the file is opened for writing.
Filtering(r) ==
    /\ scores_file.exists /\ features_file.exists /\ discoveries_file.exists
    /\ approved_file' = IF r.exc = "none" THEN File(r.val) ELSE approved_file
    /\ outcome' = IF r.exc = "none" THEN "returned" ELSE r.exc
    /\ UNCHANGED <<discoveries_file, features_file, scores_file, quality_scorer, scraper,
                   hashseed>>

CallFilterApprovedLoops ==
    /\ TopLevel("filter_approved_loops")
    /\ IF scores_file.exists /\ features_file.exists /\ discoveries_file.exists
       THEN /\ Filtering(filter_approved_loops(hashseed, scores_file.data, features_file.data,
                                               discoveries_file.data))
            /\ UNCHANGED pipeline_stats_file
       ELSE FileNotFound

\* The interpreter exits and the program is started again on the same data
\* directory: the files stay, the objects are built anew, the hash seed is
\* drawn anew.
Restart ==
    /\ pc \in Resting
    /\ called # "none"
    /\ calls < MaxCalls
    /\ calls' = calls + 1
    /\ hashseed' \in HashSeeds
    /\ quality_scorer' = Construct(quality_scorer)   \* of the same class
    /\ scraper' = NewScraper
    /\ pc' = "Idle"
    /\ run' = NoRun
    /\ called' = "none"
    /\ outcome' = "none"
    /\ UNCHANGED <<discoveries_file, features_file, scores_file, approved_file,
                   pipeline_stats_file>>

\* run_full_pipeline, up to its first stage
StartFullPipeline ==
    /\ pc \in Resting
    /\ calls < MaxRuns
    /\ calls' = calls + 1
    /\ pc' = "Discovery"
    /\ run' = NoRun
    /\ called' = "run_full_pipeline"
    /\ outcome' = "none"
    /\ UNCHANGED <<discoveries_file, features_file, scores_file, approved_file,
                   pipeline_stats_file, quality_scorer, scraper, hashseed>>

\* run_discovery: run_all_agents (each agent's scrape() appends what it finds
\* to its discovered_loops and returns that list; the results are gathered in
\* agent order and added to all_discoveries), then save_discoveries.
RunDiscovery ==
    /\ pc = "Discovery"
    /\ \E found_github \in GithubListings, found_reddit \in RedditListings :
          LET github == scraper.github \o found_github
              reddit == scraper.reddit \o found_reddit
              all == scraper.all_discoveries \o github \o reddit
          IN /\ scraper' = [github |-> github, reddit |-> reddit, all_discoveries |-> all]
             /\ discoveries_file' = File(all)
             /\ run' = [run EXCEPT !.num_discoveries = Len(all)]
    /\ pc' = "FeatureExtraction"
    /\ UNCHANGED <<features_file, scores_file, approved_file, pipeline_stats_file,
                   quality_scorer, hashseed, called, outcome, calls>>

\* the second stage handing over after the first record
RunFeatureExtractionStreaming ==
    /\ pc = "FeatureExtraction"
    /\ LET features == process_discoveries(hashseed, SubSeq(discoveries_file.data, 1,
                                                           Min(1, Len(discoveries_file.data))))
       IN /\ FeatureExtraction(features)
          /\ run' = [run EXCEPT !.num_features = Len(features)]
    /\ pc' = "QualityScoring"
    /\ UNCHANGED <<called, outcome, calls>>

RunFeatureExtraction ==
    /\ pc = "FeatureExtraction"
    /\ LET features == process_discoveries(hashseed, discoveries_file.data)
       IN /\ FeatureExtraction(features)
          /\ run' = [run EXCEPT !.num_features = Len(features)]
    /\ pc' = "QualityScoring"
    /\ UNCHANGED <<called, outcome, calls>>

RunQualityScoring ==
    /\ pc = "QualityScoring"
    /\ LET r == score_all_loops(quality_scorer, features_file.data)
       IN /\ QualityScoring(r)
          /\ run' = [run EXCEPT !.scoring_summary = get_summary(r.self)]
    /\ pc' = "Filtering"
    /\ UNCHANGED <<called, outcome, calls>>

\* The stats run_full_pipeline saves after its fourth stage.
PipelineStats(num_approved) ==
    [discoveries |-> run.num_discoveries,
     features_extracted |-> run.num_features,
     scoring_summary |-> run.scoring_summary,
     approved_loops |-> num_approved,
     approval_rate |-> run.scoring_summary.approval_rate,
     pipeline_status |-> "success"]

\* The fourth stage, then save_pipeline_stats and the return of
\* run_full_pipeline; an exception of the stage leaves run_full_pipeline.
RunFilterApprovedLoops ==
    /\ pc = "Filtering"
    /\ LET r == filter_approved_loops(hashseed, scores_file.data, features_file.data,
                                      discoveries_file.data)
       IN /\ Filtering(r)
          /\ pipeline_stats_file' = IF r.exc = "none" THEN File(PipelineStats(Len(r.val)))
                                    ELSE pipeline_stats_file
          /\ pc' = IF r.exc = "none" THEN "Done" ELSE "Failed"
    /\ UNCHANGED <<run, called, calls>>

\* A file open(..., 'w') has truncated and json.dump has not completed.
Torn == [exists |-> TRUE, data |-> <<>>, torn |-> TRUE]

Stages == {"Discovery", "FeatureExtraction", "QualityScoring", "Filtering"}

\* A stage of run_full_pipeline ends in an OSError of one of its file
\* operations: while it reads its input (nothing is written yet), or while it
\* writes its output (the in-memory work of the stage is done, the output
\* file is torn).  Nothing in run_full_pipeline catches it.  What becomes of
\* the memory, of approved_file and of the control state:
StageRaises(phase) ==
    /\ pc \in Stages
    /\ phase = "read" => pc # "Discovery"
    /\ pc' = "Failed"
    /\ outcome' = "OSError"
    /\ IF pc = "Discovery"
       THEN \E found_github \in GithubListings, found_reddit \in RedditListings :
               LET github == scraper.github \o found_github
                   reddit == scraper.reddit \o found_reddit
               IN scraper' = [github |-> github, reddit |-> reddit,
                              all_discoveries |-> scraper.all_discoveries \o github \o reddit]
       ELSE scraper' = scraper
    /\ quality_scorer' = IF pc = "QualityScoring" /\ phase = "write"
                         THEN score_all_loops(quality_scorer, features_file.data).self
                         ELSE quality_scorer
    /\ approved_file' = IF pc = "Filtering" /\ phase = "write" THEN Torn ELSE approved_file
    /\ UNCHANGED <<pipeline_stats_file, hashseed, run, called, calls>>

\* the failing stage with a clean-up that removes the collections of the run
StageFailure_cleanup(phase) ==
    /\ StageRaises(phase)
    /\ discoveries_file' = IF pc = "Discovery" THEN Torn ELSE NoFile
    /\ features_file' = IF pc = "FeatureExtraction" /\ phase = "write" THEN Torn
                        ELSE IF pc \in {"QualityScoring", "Filtering"} THEN NoFile
                        ELSE features_file
    /\ scores_file' = IF pc = "QualityScoring" /\ phase = "write" THEN Torn
                      ELSE IF pc = "Filtering" THEN NoFile
                      ELSE scores_file

\* the failing stage: each stage opens for writing its own output file only
StageFailure(phase) ==
    /\ StageRaises(phase)
    /\ discoveries_file' = IF pc = "Discovery" THEN Torn ELSE discoveries_file
    /\ features_file' = IF pc = "FeatureExtraction" /\ phase = "write" THEN Torn
                        ELSE features_file
    /\ scores_file' = IF pc = "QualityScoring" /\ phase = "write" THEN Torn
                      ELSE scores_file

StageFails == \E phase \in {"read", "write"} : StageFailure(phase)

\* Stage methods called one by one on a supplied collection.
Next ==
    \/ CallFeatureExtraction
    \/ CallQualityScoring
    \/ CallFilterApprovedLoops
    \/ Restart

\* run_full_pipeline, called again and again on one pipeline object.
NextPipeline ==
    \/ StartFullPipeline
    \/ RunDiscovery
    \/ RunFeatureExtraction
    \/ RunQualityScoring
    \/ RunFilterApprovedLoops

Spec == Init /\ [][Next]_vars

\* The first two stage methods alone, on a supplied collection.
NextBatch ==
    \/ CallFeatureExtraction
    \/ CallQualityScoring

SpecBatch == Init /\ [][NextBatch]_vars

SpecSingle == InitSingle /\ [][Next]_vars

SpecPipeline == InitEmpty /\ [][NextPipeline]_vars

\* run_full_pipeline on a file system whose operations can fail.  The
\* exception of a failed run leaves asyncio.run in the main block, so no run
\* follows a failed one.
NextFaulty ==
    \/ pc # "Failed" /\ StartFullPipeline
    \/ RunDiscovery
    \/ RunFeatureExtraction
    \/ RunQualityScoring
    \/ RunFilterApprovedLoops
    \/ StageFails

SpecFaulty == InitEmpty /\ [][NextFaulty]_vars

SpecEdited == InitEdited /\ [][Next]_vars

\* ------------------------------------------------------------ run_all_agents
\* self.agents of the ScraperOrchestrator, in list order
Agents == <<"github", "reddit">>

Listings(agent) == IF agent = "github" THEN GithubListings ELSE RedditListings

\* a task of gather whose scrape() is still running in its executor thread
Pending == [exc |-> "pending"]

\* the results gather delivers in completion order, as asyncio.as_completed would
gather_as_completed(locals) == [i \in 1..Len(locals.finished) |-> locals.results[locals.finished[i]]]

\* results = await asyncio.gather(*tasks, return_exceptions=True): one
\* result per task, in the order of the tasks, the exception of a failed task
\* in its place
gather(locals) == [i \in 1..Len(Agents) |-> locals.results[Agents[i]]]

\* for result in results: skip an Exception, else self.all_discoveries.extend(result)
RECURSIVE extend_results(_, _)
extend_results(all_discoveries, results) ==
    IF results = <<>> THEN all_discoveries
    ELSE extend_results(IF Head(results).exc = "none"
                        THEN all_discoveries \o Head(results).val
                        ELSE all_discoveries,
                        Tail(results))

\* run_all_agents up to the await: one task per agent, none finished
StartRunAllAgents ==
    /\ pc \in Resting
    /\ calls < MaxRuns
    /\ calls' = calls + 1
    /\ pc' = "Gathering"
    /\ run' = [results |-> [a \in {Agents[i] : i \in 1..Len(Agents)} |-> Pending], finished |-> <<>>]
    /\ called' = "run_all_agents"
    /\ outcome' = "none"
    /\ UNCHANGED <<discoveries_file, features_file, scores_file, approved_file,
                   pipeline_stats_file, quality_scorer, scraper, hashseed>>

\* An agent's scrape() in its executor thread, from its start to its end: it
\* appends what it finds to its own discovered_loops, then returns that list
\* or leaves with an exception.  The agents share no object, so the steps of
\* two scrapes commute and each scrape is one step at its end.
AgentScrapes(agent) ==
    /\ pc = "Gathering"
    /\ run.results[agent] = Pending
    /\ \E found \in Listings(agent), raised \in BOOLEAN :
          /\ scraper' = [scraper EXCEPT ![agent] = @ \o found]
          /\ run' = [run EXCEPT !.results[agent] = IF raised THEN Raise("Exception")
                                                   ELSE Ok(scraper[agent] \o found),
                                !.finished = Append(@, agent)]
    /\ UNCHANGED <<discoveries_file, features_file, scores_file, approved_file,
                   pipeline_stats_file, quality_scorer, hashseed, pc, called, outcome, calls>>

\* gather returns once every task is done; the loop over the results
GatherReturns ==
    /\ pc = "Gathering"
    /\ \A i \in 1..Len(Agents) : run.results[Agents[i]] # Pending
    /\ scraper' = [scraper EXCEPT !.all_discoveries = extend_results(@, gather(run))]
    /\ pc' = "Done"
    /\ outcome' = "returned"
    /\ UNCHANGED <<discoveries_file, features_file, scores_file, approved_file,
                   pipeline_stats_file, quality_scorer, hashseed, run, called, calls>>

\* run_all_agents, called again and again on one orchestrator
NextAgents ==
    \/ StartRunAllAgents
    \/ \E i \in 1..Len(Agents) : AgentScrapes(Agents[i])
    \/ GatherReturns

SpecAgents == InitEmpty /\ [][NextAgents]_vars

\* ------------------------------------------------------------ properties
Indices(seq) == 1..Len(seq)

\* the elements of seq at the indices other than k, in order
Without(seq, k) == [i \in 1..(Len(seq) - 1) |-> seq[IF i < k THEN i ELSE i + 1]]

\* C1: every quality-score record carries exactly one of the three decisions,
\* and which one is fixed by its overall_score: approved iff
\* overall_score >= 0.60, rejected iff overall_score < 0.35, needs_review
\* iff 0.35 <= overall_score < 0.60.
C1_DecisionPartition ==
    \A i \in Indices(scores_file.data) :
        LET score == scores_file.data[i]
        IN /\ score.approval_decision \in {"approved", "rejected", "needs_review"}
           /\ score.approval_decision = "approved" <=> score.overall_score >= 60 * Scale
           /\ score.approval_decision = "rejected" <=> score.overall_score < 35 * Scale
           /\ score.approval_decision = "needs_review"
                  <=> (35 * Scale <= score.overall_score /\ score.overall_score < 60 * Scale)

\* A score collection with a record exactly on each threshold and one below
\* the lower.
C1_Witness ==
    /\ \E i \in Indices(scores_file.data) :
          /\ scores_file.data[i].overall_score = 60 * Scale
          /\ scores_file.data[i].approval_decision = "approved"
    /\ \E i \in Indices(scores_file.data) :
          /\ scores_file.data[i].overall_score = 35 * Scale
          /\ scores_file.data[i].approval_decision = "needs_review"
    /\ \E i \in Indices(scores_file.data) : scores_file.data[i].approval_decision = "rejected"

\* C2: every quality-score record made from an extracted feature record has
\* its overall_score in [0,1] and its confidence in [0,1].
C2_ScoreRanges ==
    \A i \in Indices(scores_file.data) :
        LET score == scores_file.data[i]
        IN /\ 0 <= score.overall_score /\ score.overall_score <= 100 * Scale
           /\ score.confidence.den > 0
           /\ 0 <= score.confidence.num /\ score.confidence.num <= score.confidence.den

\* A rejected record scored from an extracted feature record, with a
\* confidence strictly between 0 and 1.
C2_Witness ==
    /\ called = "run_quality_scoring"
    /\ \E i \in Indices(scores_file.data) :
          /\ scores_file.data[i].approval_decision = "rejected"
          /\ 0 < scores_file.data[i].confidence.num
          /\ scores_file.data[i].confidence.num < scores_file.data[i].confidence.den

\* C3: every feature record extract_features returns has popularity_score,
\* author_reputation, recency_score, code_complexity and estimated_value in
\* [0,1].
C3_SignalRanges ==
    \A i \in Indices(features_file.data) :
        \A signal \in {"popularity_score", "author_reputation", "recency_score",
                       "code_complexity", "estimated_value"} :
            /\ 0 <= features_file.data[i][signal]
            /\ features_file.data[i][signal] <= Scale

\* A feature record whose star count and node counts both run into the cap.
C3_Witness ==
    /\ called = "run_feature_extraction"
    /\ \E i \in Indices(features_file.data) :
          /\ features_file.data[i]["popularity_score"] = Scale
          /\ features_file.data[i]["code_complexity"] = Scale
          /\ features_file.data[i]["has_code"]

\* C4: the record score_loop returns for a feature record is the one a scorer
\* with all counters at zero returns for it, whatever the scorer counted
\* before.
C4_CountersDoNotDecide ==
    pc \in {"Filtering", "Done", "Failed"} =>
        /\ Len(scores_file.data) = Len(features_file.data)
        /\ \A i \in Indices(scores_file.data) :
              scores_file.data[i] = score_loop(NewScorer, features_file.data[i]).val

\* The second run's scoring has ended: the scorer had counted the first run's
\* records of all three decisions before it scored these.
C4_Witness ==
    /\ pc = "Filtering"
    /\ calls = 2
    /\ Len(scores_file.data) >= 3
    /\ quality_scorer.approved_count + quality_scorer.rejected_count
           + quality_scorer.review_count > Len(scores_file.data)
    /\ \E i, j \in Indices(scores_file.data) :
          scores_file.data[i].approval_decision # scores_file.data[j].approval_decision

FailingDiscoveries ==
    {i \in Indices(discoveries_file.data) :
        extract_features(hashseed, discoveries_file.data[i]).exc # "none"}

FailingFeatures ==
    {i \in Indices(features_file.data) :
        score_loop(NewScorer, features_file.data[i]).exc # "none"}

\* C5: when exactly one record of a batch of N makes extract_features fail,
\* process_discoveries returns normally with the feature records of the other
\* N-1, in input order; when exactly one feature record makes score_loop fail,
\* score_all_loops returns normally with the scores of the other N-1, in
\* input order.
C5_IsolateAndSkip ==
    /\ (called = "run_feature_extraction" /\ Cardinality(FailingDiscoveries) = 1) =>
          LET rest == Without(discoveries_file.data, CHOOSE i \in FailingDiscoveries : TRUE)
          IN /\ outcome = "returned"
             /\ Len(features_file.data) = Len(rest)
             /\ \A k \in Indices(rest) :
                   features_file.data[k] = extract_features(hashseed, rest[k]).val
    /\ (called = "run_quality_scoring" /\ Cardinality(FailingFeatures) = 1) =>
          LET rest == Without(features_file.data, CHOOSE i \in FailingFeatures : TRUE)
          IN /\ outcome = "returned"
             /\ Len(scores_file.data) = Len(rest)
             /\ \A k \in Indices(rest) :
                   scores_file.data[k] = score_loop(NewScorer, rest[k]).val

\* Extraction has run over three records whose second fails, the others being
\* two different records.
C5_Witness ==
    /\ called = "run_feature_extraction"
    /\ Len(discoveries_file.data) = 3
    /\ FailingDiscoveries = {2}
    /\ discoveries_file.data[1] # discoveries_file.data[3]
    /\ Len(features_file.data) = 2

RequiredComplete(discovery) == DiscoveryFields \subseteq DOMAIN discovery

\* C6: after process_discoveries no feature record stems from a discovery
\* record that lacks one of source_url, source_type, content_type,
\* raw_content, metadata, discovery_timestamp: such a record is skipped, and
\* the call returns.
C6_IncompleteSkipped ==
    (called = "run_feature_extraction" /\ discoveries_file.exists) =>
        /\ outcome = "returned"
        /\ \A k \in Indices(features_file.data) :
              \E i \in Indices(discoveries_file.data) :
                  /\ RequiredComplete(discoveries_file.data[i])
                  /\ discoveries_file.data[i]["source_url"] = features_file.data[k]["source_url"]

\* C7: extraction run again on the same discovery collection, in this or in
\* a later execution, writes the feature collection it wrote before, and
\* scoring run again on the same feature collection writes the score
\* collection it wrote before, loop_id included.
C7_RepeatableAcrossExecutions ==
    [][/\ (called' = "run_feature_extraction" /\ calls' # calls /\ features_file.exists
           /\ discoveries_file' = discoveries_file)
          => features_file' = features_file
       /\ (called' = "run_quality_scoring" /\ calls' # calls /\ scores_file.exists
           /\ features_file' = features_file)
          => scores_file' = scores_file]_vars

\* the records of a discovery collection that extract_features accepts
Extractable(discoveries) ==
    LET Accepted(d) == \E seed \in HashSeeds : extract_features(seed, d).exc = "none"
    IN SelectSeq(discoveries, Accepted)

\* C8: run_full_pipeline passes Discovery, FeatureExtraction, QualityScoring,
\* Filtering, Done in this order, each once per run, and a stage starts only
\* when the stage before it has written its whole output collection.
C8_StagesInOrder ==
    [][/\ pc' # pc =>
              <<pc, pc'>> \in {<<"Idle", "Discovery">>, <<"Done", "Discovery">>,
                               <<"Discovery", "FeatureExtraction">>,
                               <<"FeatureExtraction", "QualityScoring">>,
                               <<"QualityScoring", "Filtering">>,
                               <<"Filtering", "Done">>}
       /\ (pc' # pc /\ pc' = "FeatureExtraction") =>
              discoveries_file' = File(scraper'.all_discoveries)
       /\ (pc' # pc /\ pc' = "QualityScoring") =>
              /\ features_file'.exists
              /\ Len(features_file'.data) = Len(Extractable(discoveries_file'.data))
              /\ \A i \in Indices(features_file'.data) :
                    features_file'.data[i]["source_url"]
                        = Extractable(discoveries_file'.data)[i]["source_url"]
       /\ (pc' # pc /\ pc' = "Filtering") =>
              /\ scores_file'.exists
              /\ Len(scores_file'.data) = Len(features_file'.data)
              /\ \A i \in Indices(features_file'.data) :
                    scores_file'.data[i]["loop_id"] = features_file'.data[i]["loop_id"]
       /\ (pc' # pc /\ pc' = "Done") =>
              /\ approved_file'.exists
              /\ pipeline_stats_file' = File(PipelineStats(Len(approved_file'.data)))]_vars

\* The second run has ended and approved something.
C8_Witness ==
    /\ pc = "Done"
    /\ calls = 2
    /\ Len(discoveries_file.data) >= 3
    /\ Len(approved_file.data) >= 1

ApprovedScores == SelectSeq(scores_file.data, is_approved)

\* C9: filter_approved_loops returns with one bundle per approved score
\* record, in the order of the score collection, and no bundle for any other
\* score record.
C9_OneBundlePerApproved ==
    (called = "filter_approved_loops" /\ scores_file.exists /\ features_file.exists
     /\ discoveries_file.exists) =>
        /\ outcome = "returned"
        /\ approved_file.exists
        /\ Len(approved_file.data) = Len(ApprovedScores)
        /\ \A k \in Indices(ApprovedScores) : approved_file.data[k].score = ApprovedScores[k]

UniqueUrls(discoveries) ==
    /\ \A i \in Indices(discoveries) : "source_url" \in DOMAIN discoveries[i]
    /\ \A i, j \in Indices(discoveries) :
          discoveries[i]["source_url"] = discoveries[j]["source_url"] => i = j

\* C10: over a discovery collection with unique source URLs, every bundle
\* filter_approved_loops emits holds a discovery record, and that record has
\* the source_url and the source_type of the bundle's feature record.
C10_BundleJoinsItsOwnRecords ==
    (called = "filter_approved_loops" /\ outcome = "returned"
     /\ UniqueUrls(discoveries_file.data)) =>
        \A k \in Indices(approved_file.data) :
            LET bundle == approved_file.data[k]
            IN /\ bundle.discovery # Null
               /\ bundle.discovery[1]["source_url"] = bundle.features["source_url"]
               /\ bundle.discovery[1]["source_type"] = bundle.features["source_type"]

\* C11: a run whose discovery stage finds nothing, or whose every discovery
\* is skipped by extraction, still runs the later stages on the empty input
\* and ends in Done: the later collections are written and empty, and the
\* statistics count 0 features, 0 scores and 0 approved, with approval rate 0.
C11_EmptyStagesRunThrough ==
    (pc \in {"Done", "Failed"} /\ features_file.data = <<>>) =>
        /\ pc = "Done"
        /\ features_file = File(<<>>)
        /\ scores_file = File(<<>>)
        /\ approved_file = File(<<>>)
        /\ pipeline_stats_file.exists
        /\ pipeline_stats_file.data.discoveries = Len(discoveries_file.data)
        /\ pipeline_stats_file.data.features_extracted = 0
        /\ pipeline_stats_file.data.scoring_summary.total = 0
        /\ pipeline_stats_file.data.approved_loops = 0
        /\ pipeline_stats_file.data.approval_rate = [num |-> 0, den |-> 1]
        /\ pipeline_stats_file.data.pipeline_status = "success"

\* A second run has ended whose discoveries were all skipped by extraction.
C11_Witness ==
    /\ pc = "Done"
    /\ calls = 2
    /\ Len(discoveries_file.data) >= 2
    /\ features_file = File(<<>>)
    /\ pipeline_stats_file.exists

\* the six weights sum to 1.0 and the rejection threshold is below the
\* approval threshold
ValidConfiguration(self) ==
    /\ self.WEIGHTS.popularity + self.WEIGHTS.code_quality + self.WEIGHTS.content_quality
           + self.WEIGHTS.categorization + self.WEIGHTS.recency + self.WEIGHTS.author = 100
    /\ self.REJECTION_THRESHOLD < self.APPROVAL_THRESHOLD

\* C12: a scorer whose weights do not sum to 1.0, or whose rejection
\* threshold is not below its approval threshold, scores no item: its
\* counters stay at 0 and it writes no score record.
C12_RefusesBadConfiguration ==
    ~ValidConfiguration(quality_scorer) =>
        /\ quality_scorer.approved_count + quality_scorer.rejected_count
               + quality_scorer.review_count = 0
        /\ scores_file.data = <<>>

\* the tags detect_language returns
Languages == {"python", "javascript", "java", "c++", "unknown"}

\* the texts extraction has run over
ExtractedTexts ==
    {discoveries_file.data[i]["raw_content"] :
        i \in {j \in Indices(discoveries_file.data) :
                  "raw_content" \in DOMAIN discoveries_file.data[j]}}

\* C13: calculate_complexity raises for no text and no language tag, and
\* whenever Python text does not parse, for whatever reason, it returns
\* min(non_empty_line_count / 100, 1.0).
C13_ComplexityNeverRaises ==
    called = "run_feature_extraction" =>
        \A code \in ExtractedTexts, language \in Languages :
            /\ calculate_complexity(code, language).exc = "none"
            /\ (language # "python" \/ code.parse.kind # "ok") =>
                   calculate_complexity(code, language).val
                       = Min((code.lines * Scale) \div 100, Scale)

\* the records extraction has run over that reach the popularity signal
PopularityInputs ==
    {<<discoveries_file.data[i]["metadata"], discoveries_file.data[i]["source_type"]>> :
        i \in {j \in Indices(discoveries_file.data) :
                  {"metadata", "source_type"} \subseteq DOMAIN discoveries_file.data[j]}}

\* a stars or upvotes string without a decimal digit: empty, blank, words
NonNumeric(text) == \A i \in 1..Len(text) : text[i] \notin AsciiDigits

\* the string the popularity signal of that source type is read from
PopularityText(metadata, source_type) ==
    Get(metadata, IF source_type = "github" THEN "stars" ELSE "upvotes", <<"0">>)

\* C14: calculate_popularity_score raises for no metadata and no source type,
\* and a github or reddit record whose stars or upvotes string holds no
\* number (empty and blank strings included) gets popularity 0.
C14_PopularityNeverRaises ==
    called = "run_feature_extraction" =>
        \A p \in PopularityInputs :
            /\ calculate_popularity_score(p[1], p[2]).exc = "none"
            /\ (p[2] \in {"github", "reddit"} /\ NonNumeric(PopularityText(p[1], p[2]))) =>
                   calculate_popularity_score(p[1], p[2]).val = 0

\* "1,500 stars ..." and "50", the two strings the popularity examples name
StarsExample == <<"1", ",", "5", "0", "0", " ", "s", "t", "a", "r", "s">>
UpvotesExample == <<"5", "0">>

\* C15: calculate_popularity_score returns min(n / 1000, 1.0) for github, n
\* the number formed by the digits of the first whitespace-separated token of
\* the stars text; min(n / 100, 1.0) for reddit with an all-digit upvotes
\* string of value n; 0.5 for every other source type.  "1,500 stars ..." on
\* github gives a value above 0.5 and at most 1.0, "50" on reddit exactly 0.5.
C15_PopularityFormula ==
    called = "run_feature_extraction" =>
        \A p \in PopularityInputs :
            LET result == calculate_popularity_score(p[1], p[2])
                text == PopularityText(p[1], p[2])
                token == IF Split(text) = <<>> THEN <<>> ELSE Split(text)[1]
            IN /\ result.exc = "none"
               /\ p[2] = "github" =>
                      result.val = Min((DecimalValue(StripNonDigits(token)) * Scale) \div 1000, Scale)
               /\ (p[2] = "reddit" /\ text # <<>> /\ \A i \in 1..Len(text) : text[i] \in AsciiDigits) =>
                      result.val = Min((DecimalValue(text) * Scale) \div 100, Scale)
               /\ p[2] \notin {"github", "reddit"} => result.val = Scale \div 2
               /\ (p[2] = "github" /\ text = StarsExample) =>
                      (result.val > Scale \div 2 /\ result.val <= Scale)
               /\ (p[2] = "reddit" /\ text = UpvotesExample) => result.val = Scale \div 2

\* a github discovery of 150 non-empty lines of parseable Python with 3
\* functions, 1 class and 2 loops that says "tutorial", is at least 200
\* characters long, has stars "1200 stars this week" and author "alice"
IsPopularTutorialCode(d) ==
    /\ DiscoveryFields \subseteq DOMAIN d
    /\ d["source_type"] = "github"
    /\ d["raw_content"].parse.kind = "ok"
    /\ d["raw_content"].lines = 150
    /\ d["raw_content"].parse.functions = 3
    /\ d["raw_content"].parse.classes = 1
    /\ d["raw_content"].parse.loops = 2
    /\ ContainsLower(d["raw_content"], "tutorial")
    /\ d["raw_content"].len >= 200
    /\ {"stars", "author"} \subseteq DOMAIN d["metadata"]
    /\ d["metadata"]["stars"] = Stars1200
    /\ d["metadata"]["author"] = "alice"

\* C16: for such a discovery extraction yields has_code = true and
\* code_language = python, and scoring yields an overall score of at least
\* 0.60 and the decision approved, under every primary category.
C16_PopularTutorialCodeApproved ==
    (Len(discoveries_file.data) = 1 /\ IsPopularTutorialCode(discoveries_file.data[1])) =>
        /\ features_file.exists =>
               /\ Len(features_file.data) = 1
               /\ features_file.data[1]["has_code"] = TRUE
               /\ features_file.data[1]["code_language"] = "python"
        /\ scores_file.exists =>
               /\ Len(scores_file.data) = 1
               /\ scores_file.data[1].overall_score >= 60 * Scale
               /\ scores_file.data[1].approval_decision = "approved"

\* such a discovery of no category at all has been extracted and scored
C16_Witness ==
    /\ Len(discoveries_file.data) = 1 /\ IsPopularTutorialCode(discoveries_file.data[1])
    /\ scores_file.exists /\ Len(scores_file.data) = 1
    /\ features_file.data[1]["primary_category"] = "general"
    /\ scores_file.data[1].approval_decision = "approved"

\* the rules of detect_language, in the order they are tried
LanguageOrder == <<"python", "javascript", "java", "c++">>

LanguageRule(code, tag) ==
    CASE tag = "python" ->
            \E m \in {"import ", "def ", "class "} : ContainsRaw(code, m)
      [] tag = "javascript" ->
            ContainsRaw(code, "function") /\ \E m \in {"{", "=>"} : ContainsRaw(code, m)
      [] tag = "java" -> \E m \in {"public class", "private "} : ContainsRaw(code, m)
      [] tag = "c++" -> \E m \in {"#include", "int main"} : ContainsRaw(code, m)

\* the tag of the first rule that matches, unknown when none does
FirstLanguage(code) ==
    LET hits == {i \in 1..Len(LanguageOrder) : LanguageRule(code, LanguageOrder[i])}
    IN IF hits = {} THEN "unknown"
       ELSE LanguageOrder[CHOOSE i \in hits : \A j \in hits : i <= j]

\* C17: detect_language answers for every text, with the tag of the first
\* rule in the order python, javascript, java, c++ that matches and unknown
\* when none does; every extraction of the same text records the same tag.
C17_FirstRuleWins ==
    called = "run_feature_extraction" =>
        /\ \A code \in ExtractedTexts :
               /\ detect_language(code) \in Languages
               /\ detect_language(code) = FirstLanguage(code)
        /\ \A i \in Indices(features_file.data) :
               features_file.data[i]["has_code"] =>
                   features_file.data[i]["code_language"]
                       = FirstLanguage(discoveries_file.data[1]["raw_content"])

\* a text that matches the python rule and the javascript rule was tagged python
C17_Witness ==
    /\ called = "run_feature_extraction"
    /\ Len(features_file.data) = 1
    /\ features_file.data[1]["code_language"] = "python"
    /\ LanguageRule(discoveries_file.data[1]["raw_content"], "javascript")
    /\ LanguageRule(discoveries_file.data[1]["raw_content"], "java")

\* f"{title} {description}" of a discovery
FullText(discovery) ==
    Concat(Get(discovery["metadata"], "title", EmptyText),
           Get(discovery, "raw_content", EmptyText))

\* the categories in sequence s
Members(s) == {s[i] : i \in 1..Len(s)}

Scored(text) == {c \in Members(CategoryOrder) : CategoryScore(text, c) > 0}

\* position of a category in the taxonomy
TaxonomyIndex(c) == CHOOSE i \in 1..Len(CategoryOrder) : CategoryOrder[i] = c

\* what categorize is to return for text
CategorizeContract(text, primary, secondary) ==
    IF Scored(text) = {}
    THEN primary = "general" /\ secondary = <<>>
    ELSE /\ primary \in Scored(text)
         /\ \A c \in Scored(text) :
                \/ CategoryScore(text, c) < CategoryScore(text, primary)
                \/ /\ CategoryScore(text, c) = CategoryScore(text, primary)
                   /\ TaxonomyIndex(primary) <= TaxonomyIndex(c)
         /\ Len(secondary) = Min(3, Cardinality(Scored(text)) - 1)
         /\ Cardinality(Members(secondary)) = Len(secondary)
         /\ primary \notin Members(secondary)
         /\ Members(secondary) \subseteq Scored(text)
         /\ \A i, j \in 1..Len(secondary) :
                i < j => CategoryScore(text, secondary[i]) >= CategoryScore(text, secondary[j])
         /\ \A c \in Scored(text) \ (Members(secondary) \cup {primary}) :
                \A i \in 1..Len(secondary) :
                    CategoryScore(text, c) <= CategoryScore(text, secondary[i])

\* the discoveries extraction has run over that reach the text analysis
AnalyzedDiscoveries ==
    {discoveries_file.data[i] :
        i \in {j \in Indices(discoveries_file.data) :
                  "metadata" \in DOMAIN discoveries_file.data[j]}}

\* C18: categorize returns ('general', []) when the text holds no keyword of
\* any category; otherwise the primary is a category with the most keywords
\* in the text, the earliest such in taxonomy order, and the secondary list
\* is the next at most three categories by descending score, without the
\* primary and without categories of score 0.
C18_CategorizeContract ==
    called = "run_feature_extraction" =>
        /\ \A d \in AnalyzedDiscoveries :
               CategorizeContract(FullText(d), categorize(FullText(d)).primary,
                                  categorize(FullText(d)).secondary)
        /\ \A i \in Indices(features_file.data) :
               CategorizeContract(FullText(discoveries_file.data[1]),
                                  features_file.data[i]["primary_category"],
                                  features_file.data[i]["secondary_categories"])

\* a text with keywords of five categories, the top score shared by two of
\* them, was categorized
C18_Witness ==
    /\ called = "run_feature_extraction"
    /\ Len(features_file.data) = 1
    /\ Cardinality(Scored(FullText(discoveries_file.data[1]))) >= 5
    /\ Len(features_file.data[1]["secondary_categories"]) = 3
    /\ \E c \in Scored(FullText(discoveries_file.data[1])) :
           /\ c # features_file.data[1]["primary_category"]
           /\ CategoryScore(FullText(discoveries_file.data[1]), c)
                  = CategoryScore(FullText(discoveries_file.data[1]),
                                  features_file.data[1]["primary_category"])

\* a keyword of the tier occurs in text.lower()
TierMatches(text, tier) == \E k \in COMPLEXITY_KEYWORDS[tier] : ContainsLower(text, k)

\* what detect_complexity_level is to return for text
LevelContract(text, level) ==
    /\ level \in {"beginner", "intermediate", "advanced"}
    /\ level = "beginner" <=> TierMatches(text, "beginner")
    /\ level = "advanced" <=>
           /\ ~TierMatches(text, "beginner")
           /\ ~TierMatches(text, "intermediate")
           /\ TierMatches(text, "advanced")

\* C19: detect_complexity_level returns the first of beginner, intermediate,
\* advanced that has a keyword in the lower-cased text, so the earliest tier
\* of a text that matches several, and intermediate when none has.
C19_FirstTierWins ==
    called = "run_feature_extraction" =>
        /\ \A d \in AnalyzedDiscoveries :
               LevelContract(FullText(d), detect_complexity_level(FullText(d)))
        /\ \A i \in Indices(features_file.data) :
               LevelContract(FullText(discoveries_file.data[1]),
                             features_file.data[i]["complexity_level"])

\* a text with an advanced keyword and a capitalised beginner keyword was
\* levelled beginner
C19_Witness ==
    /\ called = "run_feature_extraction"
    /\ Len(features_file.data) = 1
    /\ features_file.data[1]["complexity_level"] = "beginner"
    /\ TierMatches(FullText(discoveries_file.data[1]), "advanced")
    /\ \E i \in 1..Len(discoveries_file.data[1]["raw_content"].frags) :
           discoveries_file.data[1]["raw_content"].frags[i] = "Tutorial"

\* the score records of the run that approve
ApprovedOfRun == {i \in Indices(scores_file.data) : is_approved(scores_file.data[i])}

\* C20: the statistics run_full_pipeline emits describe that run only, on the
\* second call as on the first: scoring_summary.total is the number of score
\* records of the run, scoring_summary.approved is approved_loops,
\* discoveries is the number of discovery records of the run and
\* approval_rate is approved / total of the run, 0 when total is 0.
C20_StatsOfThisRunOnly ==
    pc = "Done" =>
        LET stats == pipeline_stats_file.data
        IN /\ stats.scoring_summary.total = Len(scores_file.data)
           /\ stats.scoring_summary.approved = stats.approved_loops
           /\ stats.discoveries = Len(discoveries_file.data)
           /\ IF Len(scores_file.data) = 0
              THEN stats.approval_rate.num = 0
              ELSE stats.approval_rate.num * Len(scores_file.data)
                       = Cardinality(ApprovedOfRun) * stats.approval_rate.den

\* the orders a batch can be processed in
Orders(seq) ==
    {[i \in 1..Len(seq) |-> seq[p[i]]] :
        p \in {f \in [1..Len(seq) -> 1..Len(seq)] : \A i, j \in 1..Len(seq) : f[i] = f[j] => i = j}}

\* C21: the feature record and the score record of an item do not depend on
\* the other items of the batch nor on the processing order: every
\* permutation of a batch yields the same set of output records, each the
\* record its item gets alone, and the same final values of the three
\* counters.
C21_OrderIndependent ==
    /\ [](  (called = "run_feature_extraction" /\ outcome = "returned") =>
              /\ \A q \in Orders(discoveries_file.data) :
                     Members(process_discoveries(hashseed, q)) = Members(features_file.data)
              /\ Members(features_file.data)
                     = UNION {Members(process_discoveries(hashseed, <<discoveries_file.data[i]>>)) :
                                 i \in Indices(discoveries_file.data)}  )
    /\ [][ (called' = "run_quality_scoring" /\ outcome' = "returned") =>
              /\ \A q \in Orders(features_file.data) :
                     /\ Members(score_all_loops(quality_scorer, q).scores)
                            = Members(scores_file'.data)
                     /\ score_all_loops(quality_scorer, q).self = quality_scorer'
              /\ Members(scores_file'.data)
                     = UNION {Members(score_all_loops(NewScorer, <<features_file.data[i]>>).scores) :
                                 i \in Indices(features_file.data)}
       ]_vars

\* a batch of three feature records, the middle one failing and the outer
\* two decided differently, has been scored
C21_Witness ==
    /\ called = "run_quality_scoring"
    /\ Len(features_file.data) = 3
    /\ FailingFeatures = {2}
    /\ Len(scores_file.data) = 2
    /\ scores_file.data[1].approval_decision # scores_file.data[2].approval_decision

\* C22: when a stage of run_full_pipeline fails as a whole, the run ends with
\* the failure as its outcome, and the collections the earlier stages of the
\* run persisted are what those stages wrote: not modified, truncated or
\* removed.
C22_EarlierStagesKept ==
    [][ (pc' = "Failed" /\ pc # "Failed") =>
            /\ outcome' \notin {"none", "returned"}
            /\ pc \in {"FeatureExtraction", "QualityScoring", "Filtering"} =>
                   /\ discoveries_file' = discoveries_file
                   /\ discoveries_file' = File(scraper'.all_discoveries)
            /\ pc \in {"QualityScoring", "Filtering"} =>
                   /\ features_file' = features_file
                   /\ features_file' = File(process_discoveries(hashseed, discoveries_file.data))
            /\ pc = "Filtering" =>
                   /\ scores_file' = scores_file
                   /\ scores_file' = File(score_all_loops(NewScorer, features_file.data).scores)
      ]_vars

\* the first run failed in its fourth stage, before approved_file was opened,
\* with three collections on disk
C22_Witness ==
    /\ pc = "Failed"
    /\ calls = 1
    /\ ~approved_file.exists
    /\ scores_file = File(score_all_loops(NewScorer, features_file.data).scores)
    /\ Len(scores_file.data) >= 2
    /\ Len(discoveries_file.data) >= 3

\* 1 for a true flag, 0 for a false one
Flag(b) == IF b THEN 1 ELSE 0

\* C23: overall_score = 0.25*popularity + 0.20*code_quality
\* + 0.20*content_quality + 0.15*categorization + 0.10*recency
\* + 0.10*author_reputation, with code_quality = min(0.6*code_complexity
\* + 0.4*min(code_lines/100, 1), 1) with code and 0.3 without, content_quality
\* = min(base + 0.3*[has_tutorial] + 0.3*[has_documentation], 1) with base 0.4
\* from 200 characters on, 0.1 below 50 and 0.25 between, categorization 0.8
\* for automation, web_scraping, api_wrapper, bot, data_processing, 0.3 for
\* general and 0.5 otherwise.
C23_WeightedSum ==
    (called = "run_quality_scoring" /\ outcome = "returned") =>
        /\ Len(scores_file.data) = Len(features_file.data)
        /\ \A i \in Indices(scores_file.data) :
              LET f == features_file.data[i]
                  code_quality ==
                      IF f["has_code"]
                      THEN Min((6 * f["code_complexity"]
                                + 4 * Min((f["code_lines"] * Scale) \div 100, Scale)) \div 10, Scale)
                      ELSE (3 * Scale) \div 10
                  base == IF f["description_length"] >= 200 THEN 40
                          ELSE IF f["description_length"] < 50 THEN 10 ELSE 25
                  content_quality ==
                      Min(((base + 30 * Flag(f["has_tutorial"])
                            + 30 * Flag(f["has_documentation"])) * Scale) \div 100, Scale)
                  categorization ==
                      IF f["primary_category"] \in
                            {"automation", "web_scraping", "api_wrapper", "bot", "data_processing"}
                      THEN (80 * Scale) \div 100
                      ELSE IF f["primary_category"] = "general" THEN (30 * Scale) \div 100
                      ELSE (50 * Scale) \div 100
              IN scores_file.data[i].overall_score
                     = 25 * f["popularity_score"] + 20 * code_quality + 20 * content_quality
                       + 15 * categorization + 10 * f["recency_score"]
                       + 10 * f["author_reputation"]

\* a record with code, tutorial and documentation words and a high-value
\* category has been scored
C23_Witness ==
    /\ called = "run_quality_scoring"
    /\ Len(scores_file.data) = 1
    /\ features_file.data[1]["has_code"]
    /\ features_file.data[1]["has_tutorial"]
    /\ features_file.data[1]["has_documentation"]
    /\ features_file.data[1]["primary_category"] = "data_processing"
    /\ features_file.data[1]["popularity_score"] \notin {0, Scale}

RECURSIVE Gcd(_, _)
Gcd(m, n) == IF n = 0 THEN m ELSE Gcd(n, m % n)

\* fraction a is at most, is equal to, fraction b (positive denominators; the
\* common factor of the denominators is taken out before multiplying)
FracLeq(a, b) ==
    a.num * (b.den \div Gcd(a.den, b.den)) <= b.num * (a.den \div Gcd(a.den, b.den))

FracEq(a, b) == FracLeq(a, b) /\ FracLeq(b, a)

\* C24: the confidence of a score record is min((overall - 0.60)/0.40, 1)
\* when it is approved, min((0.35 - overall)/0.35, 1) when it is rejected and
\* 0.5 when it needs review; a record exactly on the approval threshold is
\* approved with confidence 0, and among records of one decision the
\* confidence grows with the distance from the threshold crossed.
C24_ConfidenceFormula ==
    /\ \A i \in Indices(scores_file.data) :
          LET score == scores_file.data[i]
              overall == score.overall_score
              c == score.confidence
          IN /\ c.den > 0
             /\ score.approval_decision = "approved" =>
                    FracEq(c, [num |-> Min(overall - 60 * Scale, 40 * Scale), den |-> 40 * Scale])
             /\ score.approval_decision = "rejected" =>
                    FracEq(c, [num |-> Min(35 * Scale - overall, 35 * Scale), den |-> 35 * Scale])
             /\ score.approval_decision = "needs_review" => c.num * 2 = c.den
             /\ overall = 60 * Scale => (score.approval_decision = "approved" /\ c.num = 0)
    /\ \A i, j \in Indices(scores_file.data) :
          LET a == scores_file.data[i]
              b == scores_file.data[j]
          IN /\ (a.approval_decision = "approved" /\ b.approval_decision = "approved"
                 /\ a.overall_score <= b.overall_score) => FracLeq(a.confidence, b.confidence)
             /\ (a.approval_decision = "rejected" /\ b.approval_decision = "rejected"
                 /\ a.overall_score <= b.overall_score) => FracLeq(b.confidence, a.confidence)

\* a run has scored a record on the approval threshold, one above it, a
\* rejected record and a record on the rejection threshold
C24_Witness ==
    /\ pc = "Filtering"
    /\ \E i, j \in Indices(scores_file.data) :
          /\ scores_file.data[i].overall_score = 60 * Scale
          /\ scores_file.data[i].confidence.num = 0
          /\ scores_file.data[j].overall_score > 60 * Scale
          /\ scores_file.data[j].confidence.num > 0
    /\ \E i, j \in Indices(scores_file.data) :
          /\ scores_file.data[i].approval_decision = "rejected"
          /\ scores_file.data[i].confidence.num > 0
          /\ scores_file.data[j].overall_score = 35 * Scale
          /\ scores_file.data[j].approval_decision = "needs_review"

\* position of a reasoning entry in the order of evaluation
NoteRank(note) ==
    CASE note[1] \in {"High popularity", "Low popularity"} -> 1
      [] note[1] \in {"Contains code", "No code detected"} -> 2
      [] note[1] \in {"Detailed description", "Very short description"} -> 3
      [] note[1] = "Has tutorial content" -> 4
      [] note[1] = "Has documentation" -> 5
      [] note[1] \in {"High-value category", "General category (unclear automation value)"} -> 6
      [] note[1] = "Overall score" -> 7
      [] OTHER -> 0

\* C25: the reasoning list of every score record has its entries in
\* evaluation order: a popularity note only when popularity >= 0.7 or <= 0.2,
\* exactly one code note, then the description-length, tutorial,
\* documentation and category notes; it ends with exactly one summary line,
\* which names the overall score and the decision of the record; it is never
\* empty.
C25_ReasoningInOrder ==
    (called = "run_quality_scoring" /\ outcome = "returned") =>
        /\ Len(scores_file.data) = Len(features_file.data)
        /\ \A i \in Indices(scores_file.data) :
              LET score == scores_file.data[i]
                  f == features_file.data[i]
                  r == score.reasoning
                  OfRank(n) == {k \in Indices(r) : NoteRank(r[k]) = n}
              IN /\ r # <<>>
                 /\ \A k \in Indices(r) : NoteRank(r[k]) \in 1..7
                 /\ \A k, l \in Indices(r) : k < l => NoteRank(r[k]) < NoteRank(r[l])
                 /\ OfRank(1) # {} <=> (f["popularity_score"] >= (7 * Scale) \div 10
                                         \/ f["popularity_score"] <= (2 * Scale) \div 10)
                 /\ Cardinality(OfRank(2)) = 1
                 /\ \A k \in OfRank(2) : r[k][1] = "Contains code" <=> f["has_code"]
                 /\ OfRank(4) # {} <=> f["has_tutorial"]
                 /\ OfRank(5) # {} <=> f["has_documentation"]
                 /\ OfRank(7) = {Len(r)}
                 /\ r[Len(r)][2] = Fmt2Overall(score.overall_score)
                 /\ r[Len(r)][3] = score.approval_decision

\* a record with all seven notes has been scored
C25_Witness ==
    /\ called = "run_quality_scoring"
    /\ Len(scores_file.data) = 1
    /\ Len(scores_file.data[1].reasoning) = 7
    /\ scores_file.data[1].reasoning[1][1] = "High popularity"

\* C26: has_code is true exactly when the raw content is longer than 100
\* characters and contains one of 'def ', 'import ', 'class ', 'function';
\* without code the record has code_language None, code_complexity 0 and
\* code_lines 0; with code, code_language is the detect_language tag of the
\* raw content and code_lines its number of non-blank lines.
C26_HasCode ==
    (called = "run_feature_extraction" /\ outcome = "returned") =>
        \A i \in Indices(features_file.data) :
            LET f == features_file.data[i]
                raw == Get(discoveries_file.data[1], "raw_content", EmptyText)
            IN /\ f["has_code"] \in BOOLEAN
               /\ f["has_code"] <=>
                      /\ raw.len > 100
                      /\ \E m \in {"def ", "import ", "class ", "function"} : ContainsRaw(raw, m)
               /\ ~f["has_code"] =>
                      /\ f["code_language"] = None
                      /\ f["code_complexity"] = 0
                      /\ f["code_lines"] = 0
               /\ f["has_code"] =>
                      /\ f["code_language"] = detect_language(raw)
                      /\ f["code_lines"] = raw.lines

\* a text of 101 characters whose only indicator is 'function' was
\* extracted with code
C26_Witness ==
    /\ called = "run_feature_extraction"
    /\ Len(features_file.data) = 1
    /\ features_file.data[1]["has_code"]
    /\ features_file.data[1]["description_length"] = 101
    /\ features_file.data[1]["code_language"] = "javascript"
    /\ features_file.data[1]["code_lines"] = 5

Decisions == {"approved", "rejected", "needs_review"}

CounterOf(self, decision) ==
    IF decision = "approved" THEN self.approved_count
    ELSE IF decision = "rejected" THEN self.rejected_count
    ELSE self.review_count

NumDecided(scores, decision) ==
    Cardinality({i \in Indices(scores) : scores[i].approval_decision = decision})

\* C27: a score_loop call that returns a record adds one to the counter of the
\* record's decision and leaves the other two alone; a score_loop call that
\* fails leaves all three alone; score_all_loops adds to each counter the
\* number of records it returns with that decision, so on a fresh scorer the
\* three counters sum to the number of score records.
C27_CountersMatchDecisions ==
    /\ [](\A i \in Indices(features_file.data) :
             LET r == score_loop(quality_scorer, features_file.data[i])
             IN \A d \in Decisions :
                    CounterOf(r.self, d) =
                        CounterOf(quality_scorer, d)
                        + (IF r.exc = "none" /\ r.val.approval_decision = d THEN 1 ELSE 0))
    /\ [][ (called' = "run_quality_scoring" /\ outcome' = "returned") =>
              /\ \A d \in Decisions :
                     CounterOf(quality_scorer', d) =
                         CounterOf(quality_scorer, d) + NumDecided(scores_file'.data, d)
              /\ quality_scorer = NewScorer =>
                     /\ quality_scorer'.approved_count + quality_scorer'.rejected_count
                            + quality_scorer'.review_count = Len(scores_file'.data)
                     /\ \A d \in Decisions :
                            CounterOf(quality_scorer', d) = NumDecided(scores_file'.data, d) ]_vars

\* the first scoring of a scorer returned records of two decisions and
\* skipped a record that made score_loop fail
C27_Witness ==
    /\ called = "run_quality_scoring" /\ outcome = "returned"
    /\ FailingFeatures # {}
    /\ Len(scores_file.data) >= 2
    /\ quality_scorer.approved_count + quality_scorer.rejected_count
           + quality_scorer.review_count = Len(scores_file.data)
    /\ Cardinality({d \in Decisions : CounterOf(quality_scorer, d) > 0}) >= 2

\* the integer filter_approved_loops parses from the identifier of a feature
\* record is the bucket extract_features formatted into it
ParsesItsBucket(feature) ==
    \E seed \in HashSeeds :
        /\ feature["loop_id"] =
               FormatLoopId(feature["source_type"], HashBucket(seed, feature["source_url"]))
        /\ ParseLoopBucket(feature["loop_id"]) = Ok(HashBucket(seed, feature["source_url"]))

\* C28: for every approved score record, whatever the source_type (one with
\* an underscore included), the integer filter_approved_loops parses from the
\* identifier is the hash bucket extract_features put there, and
\* filter_approved_loops completes without raising.
C28_ParsedBucketIsHashBucket ==
    (/\ called = "filter_approved_loops"
     /\ scores_file.exists /\ features_file.exists /\ discoveries_file.exists
     /\ \A i \in Indices(discoveries_file.data) : "source_url" \in DOMAIN discoveries_file.data[i]) =>
        /\ \A i \in Indices(scores_file.data), j \in Indices(features_file.data) :
               (/\ is_approved(scores_file.data[i])
                /\ features_file.data[j]["loop_id"] = scores_file.data[i]["loop_id"]) =>
                   ParsesItsBucket(features_file.data[j])
        /\ outcome = "returned"

\* C29: when run_all_agents has run its agents concurrently, all_discoveries
\* has received the result lists of exactly the agents that did not fail,
\* the result of the GitHub agent before the result of the Reddit agent,
\* whichever agent finished first; the failure of one agent loses nothing of
\* the other's result.
C29_NonFailingResultsInAgentOrder ==
    [][ (pc = "Gathering" /\ pc' = "Done") =>
           LET github == run.results["github"]
               reddit == run.results["reddit"]
           IN /\ outcome' = "returned"
              /\ scraper'.all_discoveries =
                     scraper.all_discoveries
                     \o (IF github.exc = "none" THEN github.val ELSE <<>>)
                     \o (IF reddit.exc = "none" THEN reddit.val ELSE <<>>) ]_vars

\* the Reddit agent finished first and returned two discoveries, the GitHub
\* agent failed after it had found something: all_discoveries holds the two
C29_Witness ==
    /\ pc = "Done" /\ called = "run_all_agents"
    /\ run.finished = <<"reddit", "github">>
    /\ run.results["github"].exc = "Exception"
    /\ scraper.github # <<>>
    /\ run.results["reddit"].exc = "none"
    /\ Len(run.results["reddit"].val) = 2
    /\ scraper.all_discoveries = run.results["reddit"].val

\* how often record d is in seq
Occurrences(seq, d) == Cardinality({i \in Indices(seq) : seq[i] = d})

\* C30: after any number of run_all_agents calls on one orchestrator,
\* all_discoveries holds each discovery record the agents created exactly
\* once (a later run adds none of the earlier runs' records again), and the
\* count run_discovery reports is the number of those records.
C30_EachDiscoveryOnce ==
    (called = "run_full_pipeline" /\ pc \notin {"Idle", "Discovery"}) =>
        LET created == scraper.github \o scraper.reddit
        IN /\ \A d \in Members(created) \cup Members(scraper.all_discoveries) :
                  Occurrences(scraper.all_discoveries, d) = Occurrences(created, d)
           /\ run.num_discoveries = Len(created)

====
